---- MODULE Spec2Model ----
(***************************************************************************)
(* ups-mqtt: a daemon that polls a NUT server and republishes the UPS      *)
(* variables, seven derived metrics and a combined JSON state on MQTT.     *)
(*                                                                         *)
(* A Go string is modelled as the sequence of its characters (each a       *)
(* one-character string), so that splitting, replacing and parsing are     *)
(* computed, not assumed.                                                  *)
(***************************************************************************)
EXTENDS Integers, Sequences, FiniteSets, TLC

(***************************************************************************)
(* Bounds of the model.                                                    *)
(***************************************************************************)
\* ticks the ticker fires in one run (the clock is counted in poll intervals)
MaxTicks == 2
\* connection attempts made by the startup routine in one run
MaxAttempts == 8
\* connect calls and Close calls made on a client used on its own
MaxSessions == 2
MaxCloses == 3
\* battery.runtime values 0..MaxRuntime, in seconds, given to Compute
MaxRuntime == 240

(***************************************************************************)
(* Strings.                                                                *)
(***************************************************************************)
DigitVal ==
  ("0" :> 0) @@ ("1" :> 1) @@ ("2" :> 2) @@ ("3" :> 3) @@ ("4" :> 4) @@
  ("5" :> 5) @@ ("6" :> 6) @@ ("7" :> 7) @@ ("8" :> 8) @@ ("9" :> 9)

DigitChar == <<"0", "1", "2", "3", "4", "5", "6", "7", "8", "9">>

IsDigit(c) == c \in DOMAIN DigitVal

\* unicode.IsSpace on the characters the model uses
IsSpace(c) == c = " "

RECURSIVE Pow10(_)
Pow10(n) == IF n = 0 THEN 1 ELSE 10 * Pow10(n - 1)

Abs(i) == IF i < 0 THEN -i ELSE i

\* strings.ReplaceAll(s, old, new) for one-character old and new
ReplaceAll(s, old, new) ==
  [i \in 1..Len(s) |-> IF s[i] = old THEN new ELSE s[i]]

\* strings.Fields: the maximal runs of non-space characters, in order
RECURSIVE FieldsAcc(_, _, _)
FieldsAcc(s, cur, out) ==
  IF s = <<>>
    THEN IF cur = <<>> THEN out ELSE Append(out, cur)
    ELSE IF IsSpace(Head(s))
      THEN FieldsAcc(Tail(s), <<>>, IF cur = <<>> THEN out ELSE Append(out, cur))
      ELSE FieldsAcc(Tail(s), Append(cur, Head(s)), out)

Fields(s) == FieldsAcc(s, <<>>, <<>>)

\* strings.Join
RECURSIVE Join(_, _)
Join(elems, sep) ==
  IF elems = <<>> THEN <<>>
  ELSE IF Len(elems) = 1 THEN elems[1]
  ELSE elems[1] \o sep \o Join(Tail(elems), sep)

\* decimal digits of a natural number
RECURSIVE NatToStr(_)
NatToStr(n) ==
  IF n < 10 THEN <<DigitChar[n + 1]>>
  ELSE NatToStr(n \div 10) \o <<DigitChar[(n % 10) + 1]>>

\* value of a sequence of digit characters
RECURSIVE DigitsToNat(_)
DigitsToNat(ds) ==
  IF ds = <<>> THEN 0
  ELSE 10 * DigitsToNat(SubSeq(ds, 1, Len(ds) - 1)) + DigitVal[ds[Len(ds)]]

(***************************************************************************)
(* internal/metrics.  A float64 that Compute produces is a multiple of     *)
(* 0.01; it is held as the integer number of hundredths.  A parsed input   *)
(* is the exact decimal mant / 10^frac.  The model covers plain decimal    *)
(* inputs (sign, digits, one optional point) and the spellings of NaN and  *)
(* of the infinities that strconv.ParseFloat accepts.                      *)
(***************************************************************************)
\* the float64 values that are no numbers, held as integers no finite result
\* of the model reaches
NaN == 2000000000
PosInf == 1999999999
NegInf == -1999999999
IsFinite(x) == x \notin {NaN, PosInf, NegInf}

\* the spellings of them strconv.ParseFloat accepts, among the values the
\* model draws
specialFloats ==
  (<<"N","a","N">> :> "NaN") @@ (<<"n","a","n">> :> "NaN") @@
  (<<"I","n","f">> :> "+Inf") @@ (<<"+","I","n","f">> :> "+Inf") @@
  (<<"i","n","f">> :> "+Inf") @@ (<<"-","I","n","f">> :> "-Inf")

\* the sign of a parsed value that is not zero
SignOf(p) ==
  IF p.kind = "+Inf" THEN 1 ELSE IF p.kind = "-Inf" THEN -1
  ELSE IF p.mant < 0 THEN -1 ELSE 1

\* parseFloat: (0, false) for the empty string and for what ParseFloat rejects
parseFloat(s) ==
  LET signed == s # <<>> /\ s[1] \in {"+", "-"}
      body   == IF signed THEN Tail(s) ELSE s
      dots   == {i \in 1..Len(body) : body[i] = "."}
      digits == SelectSeq(body, IsDigit)
      wellFormed ==
        /\ s # <<>>
        /\ \A i \in 1..Len(body) : IsDigit(body[i]) \/ body[i] = "."
        /\ Cardinality(dots) <= 1
        /\ digits # <<>>
      frac == IF dots = {} THEN 0 ELSE Len(body) - (CHOOSE i \in dots : TRUE)
      mag  == DigitsToNat(digits)
  IN IF s \in DOMAIN specialFloats
       THEN [ok |-> TRUE, mant |-> 0, frac |-> 0, kind |-> specialFloats[s]]
     ELSE IF wellFormed
       THEN [ok |-> TRUE, mant |-> IF s[1] = "-" THEN -mag ELSE mag, frac |-> frac,
             kind |-> "finite"]
       ELSE [ok |-> FALSE, mant |-> 0, frac |-> 0, kind |-> "finite"]

\* math.Round(num / den) for den > 0: half away from zero
RoundDiv(num, den) ==
  IF num >= 0 THEN (2 * num + den) \div (2 * den)
  ELSE -((2 * (-num) + den) \div (2 * den))

\* vars[name] of a Go map: the zero value "" when the key is absent
Lookup(vars, name) == IF name \in DOMAIN vars THEN vars[name] ELSE <<>>

K_ups_status == <<"u","p","s",".","s","t","a","t","u","s">>
K_ups_load == <<"u","p","s",".","l","o","a","d">>
K_ups_realpower_nominal ==
  <<"u","p","s",".","r","e","a","l","p","o","w","e","r",".","n","o","m","i","n","a","l">>
K_battery_runtime ==
  <<"b","a","t","t","e","r","y",".","r","u","n","t","i","m","e">>
K_input_voltage == <<"i","n","p","u","t",".","v","o","l","t","a","g","e">>
K_input_voltage_nominal ==
  <<"i","n","p","u","t",".","v","o","l","t","a","g","e",".","n","o","m","i","n","a","l">>

\* math.Round(load/100*nominal*100) / 100, in hundredths
computeLoadWatts(vars) ==
  LET load    == parseFloat(Lookup(vars, K_ups_load))
      nominal == parseFloat(Lookup(vars, K_ups_realpower_nominal))
  IN IF ~load.ok THEN 0
     ELSE IF ~nominal.ok THEN 0
     ELSE IF load.kind = "NaN" \/ nominal.kind = "NaN" THEN NaN
     ELSE IF load.kind # "finite" \/ nominal.kind # "finite"
       THEN \* an infinity times zero is NaN, times anything else an infinity
            IF (load.kind = "finite" /\ load.mant = 0)
                 \/ (nominal.kind = "finite" /\ nominal.mant = 0) THEN NaN
            ELSE IF SignOf(load) * SignOf(nominal) > 0 THEN PosInf ELSE NegInf
     ELSE RoundDiv(load.mant * nominal.mant, Pow10(load.frac + nominal.frac))

\* math.Round(runtime/60*100) / 100, in hundredths
computeBatteryRuntimeMins(vars) ==
  LET runtime == parseFloat(Lookup(vars, K_battery_runtime))
  IN IF ~runtime.ok THEN 0
     ELSE IF runtime.kind = "NaN" THEN NaN
     ELSE IF runtime.kind = "+Inf" THEN PosInf
     ELSE IF runtime.kind = "-Inf" THEN NegInf
     ELSE RoundDiv(runtime.mant * 100, 60 * Pow10(runtime.frac))

\* computeBatteryRuntimeHours truncating to two decimals instead of rounding
computeBatteryRuntimeHours_Truncates(vars) ==
  LET runtime == parseFloat(Lookup(vars, K_battery_runtime))
      q == Abs(runtime.mant * 100) \div (3600 * Pow10(runtime.frac))
  IN IF ~runtime.ok THEN 0
     ELSE IF runtime.mant < 0 THEN -q ELSE q

\* math.Round(runtime/3600*100) / 100, in hundredths
computeBatteryRuntimeHours(vars) ==
  LET runtime == parseFloat(Lookup(vars, K_battery_runtime))
  IN IF ~runtime.ok THEN 0
     ELSE IF runtime.kind = "NaN" THEN NaN
     ELSE IF runtime.kind = "+Inf" THEN PosInf
     ELSE IF runtime.kind = "-Inf" THEN NegInf
     ELSE RoundDiv(runtime.mant * 100, 3600 * Pow10(runtime.frac))

\* computeInputVoltageDeviationPct without the check of the voltage's parse
computeInputVoltageDeviationPct_NoVoltageCheck(vars) ==
  LET voltage == parseFloat(Lookup(vars, K_input_voltage))
      nominal == parseFloat(Lookup(vars, K_input_voltage_nominal))
      num == (voltage.mant * Pow10(nominal.frac) - nominal.mant * Pow10(voltage.frac))
               * 10000
      den == nominal.mant * Pow10(voltage.frac)
  IN IF ~nominal.ok \/ nominal.mant = 0 THEN 0
     ELSE IF den > 0 THEN RoundDiv(num, den) ELSE RoundDiv(-num, -den)

\* computeInputVoltageDeviationPct guarding a zero voltage like a zero nominal
computeInputVoltageDeviationPct_GuardsVoltageToo(vars) ==
  LET voltage == parseFloat(Lookup(vars, K_input_voltage))
      nominal == parseFloat(Lookup(vars, K_input_voltage_nominal))
      num == (voltage.mant * Pow10(nominal.frac) - nominal.mant * Pow10(voltage.frac))
               * 10000
      den == nominal.mant * Pow10(voltage.frac)
  IN IF ~voltage.ok \/ voltage.mant = 0 THEN 0
     ELSE IF ~nominal.ok \/ nominal.mant = 0 THEN 0
     ELSE IF den > 0 THEN RoundDiv(num, den) ELSE RoundDiv(-num, -den)

\* math.Round((voltage-nominal)/nominal*100*100) / 100, in hundredths
computeInputVoltageDeviationPct(vars) ==
  LET voltage == parseFloat(Lookup(vars, K_input_voltage))
      nominal == parseFloat(Lookup(vars, K_input_voltage_nominal))
      num == (voltage.mant * Pow10(nominal.frac) - nominal.mant * Pow10(voltage.frac))
               * 10000
      den == nominal.mant * Pow10(voltage.frac)
  IN IF ~voltage.ok THEN 0
     ELSE IF ~nominal.ok \/ (nominal.kind = "finite" /\ nominal.mant = 0) THEN 0
     \* with a nominal that is NaN or infinite the quotient is NaN
     ELSE IF voltage.kind = "NaN" \/ nominal.kind # "finite" THEN NaN
     ELSE IF voltage.kind # "finite"
       THEN IF SignOf(voltage) * SignOf(nominal) > 0 THEN PosInf ELSE NegInf
     ELSE IF den > 0 THEN RoundDiv(num, den) ELSE RoundDiv(-num, -den)

\* hasStatusToken by substring (strings.Contains) instead of by field
hasStatusToken_Substring(status, token) ==
  \E i \in 1..Len(status) :
    /\ i + Len(token) - 1 <= Len(status)
    /\ SubSeq(status, i, i + Len(token) - 1) = token

\* hasStatusToken: the status string contains token as a whole field
hasStatusToken(status, token) ==
  \E i \in 1..Len(Fields(status)) : Fields(status)[i] = token

statusTokens ==
  (<<"O","L">> :> <<"O","n","l","i","n","e">>) @@
  (<<"O","B">> :> <<"O","n"," ","B","a","t","t","e","r","y">>) @@
  (<<"L","B">> :> <<"L","o","w"," ","B","a","t","t","e","r","y">>) @@
  (<<"H","B">> :> <<"H","i","g","h"," ","B","a","t","t","e","r","y">>) @@
  (<<"R","B">> :> <<"R","e","p","l","a","c","e"," ","B","a","t","t","e","r","y">>) @@
  (<<"C","H","R","G">> :> <<"C","h","a","r","g","i","n","g">>) @@
  (<<"D","I","S","C","H","R","G">> :> <<"D","i","s","c","h","a","r","g","i","n","g">>) @@
  (<<"B","Y","P","A","S","S">> :> <<"B","y","p","a","s","s">>) @@
  (<<"C","A","L">> :> <<"C","a","l","i","b","r","a","t","i","n","g">>) @@
  (<<"O","F","F">> :> <<"O","f","f","l","i","n","e">>) @@
  (<<"O","V","E","R">> :> <<"O","v","e","r","l","o","a","d","e","d">>) @@
  (<<"T","R","I","M">> :> <<"T","r","i","m","m","i","n","g">>) @@
  (<<"B","O","O","S","T">> :> <<"B","o","o","s","t","i","n","g">>) @@
  (<<"F","S","D">> :> <<"F","o","r","c","e","d"," ","S","h","u","t","d","o","w","n">>)

\* computeStatusDisplay dropping the tokens it does not know
computeStatusDisplay_DropsUnknown(vars) ==
  LET status  == Lookup(vars, K_ups_status)
      tokens  == SelectSeq(Fields(status), LAMBDA t : t \in DOMAIN statusTokens)
      decoded == [i \in 1..Len(tokens) |-> statusTokens[tokens[i]]]
  IN IF status = <<>> THEN <<>> ELSE Join(decoded, <<",", " ">>)

computeStatusDisplay(vars) ==
  LET status  == Lookup(vars, K_ups_status)
      tokens  == Fields(status)
      decoded == [i \in 1..Len(tokens) |->
                    IF tokens[i] \in DOMAIN statusTokens
                      THEN statusTokens[tokens[i]] ELSE tokens[i]]
  IN IF status = <<>> THEN <<>> ELSE Join(decoded, <<",", " ">>)

\* The Metrics struct; the field names are its JSON tags.
Compute(vars) ==
  [load_watts                  |-> computeLoadWatts(vars),
   battery_runtime_mins        |-> computeBatteryRuntimeMins(vars),
   battery_runtime_hours       |-> computeBatteryRuntimeHours(vars),
   on_battery                  |-> hasStatusToken(Lookup(vars, K_ups_status), <<"O","B">>),
   low_battery                 |-> hasStatusToken(Lookup(vars, K_ups_status), <<"L","B">>),
   status_display              |-> computeStatusDisplay(vars),
   input_voltage_deviation_pct |-> computeInputVoltageDeviationPct(vars)]

\* the zero value Metrics{}
ZeroMetrics == Compute(<<>>)

\* strconv.FormatFloat(v, 'f', -1, 64) of h hundredths: no trailing zeros
formatFloat(h) ==
  LET whole == Abs(h) \div 100
      cents == Abs(h) % 100
      sign  == IF h < 0 THEN <<"-">> ELSE <<>>
      tail  == IF cents = 0 THEN <<>>
               ELSE IF cents % 10 = 0 THEN <<".", DigitChar[(cents \div 10) + 1]>>
               ELSE <<".", DigitChar[(cents \div 10) + 1], DigitChar[(cents % 10) + 1]>>
  IN IF h = NaN THEN <<"N","a","N">>
     ELSE IF h = PosInf THEN <<"+","I","n","f">>
     ELSE IF h = NegInf THEN <<"-","I","n","f">>
     ELSE sign \o NatToStr(whole) \o tail

\* strconv.FormatBool
FormatBool(b) == IF b THEN <<"t","r","u","e">> ELSE <<"f","a","l","s","e">>

N_load_watts == <<"l","o","a","d","_","w","a","t","t","s">>
N_battery_runtime_mins ==
  <<"b","a","t","t","e","r","y","_","r","u","n","t","i","m","e","_","m","i","n","s">>
N_battery_runtime_hours ==
  <<"b","a","t","t","e","r","y","_","r","u","n","t","i","m","e","_","h","o","u","r","s">>
N_on_battery == <<"o","n","_","b","a","t","t","e","r","y">>
N_low_battery == <<"l","o","w","_","b","a","t","t","e","r","y">>
N_status_display == <<"s","t","a","t","u","s","_","d","i","s","p","l","a","y">>
N_input_voltage_deviation_pct ==
  <<"i","n","p","u","t","_","v","o","l","t","a","g","e","_",
    "d","e","v","i","a","t","i","o","n","_","p","c","t">>

\* AsTopicMap with one key drifted away from the struct's JSON tag
AsTopicMap_DriftedName(m) ==
  (N_load_watts :> formatFloat(m.load_watts)) @@
  (N_battery_runtime_mins :> formatFloat(m.battery_runtime_mins)) @@
  (N_battery_runtime_hours :> formatFloat(m.battery_runtime_hours)) @@
  (N_on_battery :> FormatBool(m.on_battery)) @@
  (N_low_battery :> FormatBool(m.low_battery)) @@
  (<<"s","t","a","t","u","s">> :> m.status_display) @@
  (N_input_voltage_deviation_pct :> formatFloat(m.input_voltage_deviation_pct))

AsTopicMap_NoStatusDisplay(m) ==
  (N_load_watts :> formatFloat(m.load_watts)) @@
  (N_battery_runtime_mins :> formatFloat(m.battery_runtime_mins)) @@
  (N_battery_runtime_hours :> formatFloat(m.battery_runtime_hours)) @@
  (N_on_battery :> FormatBool(m.on_battery)) @@
  (N_low_battery :> FormatBool(m.low_battery)) @@
  (N_input_voltage_deviation_pct :> formatFloat(m.input_voltage_deviation_pct))

\* Metrics.AsTopicMap: metric name -> payload string
AsTopicMap(m) ==
  (N_load_watts :> formatFloat(m.load_watts)) @@
  (N_battery_runtime_mins :> formatFloat(m.battery_runtime_mins)) @@
  (N_battery_runtime_hours :> formatFloat(m.battery_runtime_hours)) @@
  (N_on_battery :> FormatBool(m.on_battery)) @@
  (N_low_battery :> FormatBool(m.low_battery)) @@
  (N_status_display :> m.status_display) @@
  (N_input_voltage_deviation_pct :> formatFloat(m.input_voltage_deviation_pct))

(***************************************************************************)
(* Configuration (internal/config) as the orchestrator reads it.           *)
(***************************************************************************)
\* cfg.MQTT.TopicPrefix
Prefix == <<"u","p","s">>
\* cfg.NUT.UPSName
UPSName == <<"c","p">>

\* the configurations a run starts from: MQTT.Retained and NUT.Username
Configs ==
  {[Retained |-> TRUE,  Username |-> <<>>],
   [Retained |-> FALSE, Username |-> <<"u">>]}

\* the variable lists the source may hold for the configured UPS
Snapshots ==
  {<<[Name |-> K_ups_status, Value |-> <<"O","B"," ","L","B">>]>>,
   <<[Name |-> K_ups_load, Value |-> <<"5">>],
     [Name |-> K_ups_realpower_nominal, Value |-> <<"9","0","0">>],
     [Name |-> K_ups_load, Value |-> <<"8">>]>>}

(***************************************************************************)
(* internal/nut: Variable, VarsToMap.                                      *)
(***************************************************************************)
\* VarsToMap: name -> value; a later entry of the list overwrites an earlier
RECURSIVE VarsToMap(_)
VarsToMap(list) ==
  IF list = <<>> THEN <<>>
  ELSE LET last == list[Len(list)]
           init == VarsToMap(SubSeq(list, 1, Len(list) - 1))
       IN (last.Name :> last.Value) @@ init

(***************************************************************************)
(* internal/publisher: topics, payloads, messages.                         *)
(***************************************************************************)
\* a payload that is the plain string s
Text(s) == [text |-> s]
\* a payload that is the JSON encoding of the object obj
Json(obj) == [json |-> obj]

\* StateTopic: "{prefix}/{upsName}/state"
StateTopic(prefix, upsName) ==
  prefix \o <<"/">> \o upsName \o <<"/","s","t","a","t","e">>

VarTopic_KeepsDots(name) ==
  Prefix \o <<"/">> \o UPSName \o <<"/">> \o name

\* topic of one NUT variable: dots of the name become slashes
VarTopic(name) ==
  Prefix \o <<"/">> \o UPSName \o <<"/">> \o ReplaceAll(name, ".", "/")

\* topic of one computed metric
MetricTopic(name) ==
  Prefix \o <<"/">> \o UPSName \o <<"/","c","o","m","p","u","t","e","d","/">> \o name

\* FormatOffline at time t: the OnlineState JSON object
FormatOffline(t) == Json([online |-> FALSE, timestamp |-> t])

\* json.Marshal of a StateMessage fails on a float64 that is NaN or infinite
MarshalFails(m) ==
  \/ ~IsFinite(m.load_watts)
  \/ ~IsFinite(m.battery_runtime_mins)
  \/ ~IsFinite(m.battery_runtime_hours)
  \/ ~IsFinite(m.input_voltage_deviation_pct)

StateMessage_NoComputed(vars, m, t) ==
  Json([timestamp |-> t, ups_name |-> UPSName, variables |-> vars])

\* the StateMessage JSON object built by publishState at time t
StateMessage(vars, m, t) ==
  Json([timestamp |-> t, ups_name |-> UPSName, variables |-> vars, computed |-> m])

\* the names AsTopicMap ranges over
MetricNames == DOMAIN AsTopicMap(Compute(<<>>))

\* the bus after msg is delivered: per topic, the messages in publish order
Deliver(bus, msg) ==
  LET entry == [Payload |-> msg.Payload, Retained |-> msg.Retained]
  IN IF msg.Topic \in DOMAIN bus
       THEN [bus EXCEPT ![msg.Topic] = Append(@, entry)]
       ELSE (msg.Topic :> <<entry>>) @@ bus

(***************************************************************************)
(* State.                                                                  *)
(***************************************************************************)
VARIABLES
  pc,           \* position of main
  ctxDone,      \* ctx.Done() is closed: SIGTERM or SIGINT was received
  tickPending,  \* ticker.C holds a tick (the channel has room for one)
  tickerOn,     \* the ticker exists and was not stopped
  now,          \* time.Now(), in poll intervals
  backoff,      \* connectNUT: backoff, in seconds (0 outside connectNUT)
  attempts,     \* connectNUT: failed NewClient calls so far (0 outside)
  cfg,          \* the loaded configuration
  pubOpen,      \* the MQTT session is connected
  lwt,          \* the will registered with the broker (<<>> when none)
  srcUp,        \* upsd accepts connections
  srcHasTarget, \* upsd lists the configured UPS
  srcVars,      \* the variables upsd holds for it
  live,         \* the sessions upsd still serves
  conn,         \* Client.conn (Nil or a session)
  stale,        \* Client.stale
  sessions,     \* the sessions dialled and not disconnected by the process
  nConn,        \* sessions dialled so far
  closes,       \* Close calls made on the client
  closeErr,     \* what the last Close returned: "none" before any, "nil" or "err"
  cycleKind,    \* what started the last doPoll: "tick" or "final"
  nCycles,      \* doPoll calls made so far (counted up to MaxTicks + 2)
  outcome,      \* result of the last doPoll ("running" while it runs)
  prevOutcome,  \* result of the doPoll before it
  varMap,       \* doPoll: varMap
  metrics,      \* doPoll: m, the Metrics computed from varMap
  todo,         \* PublishAll: keys of the current range loop not yet visited
  pollErr,      \* error of the last Poll ("none" while it runs)
  ops,          \* source operations of the last Poll, in order
  staleAtEntry, \* c.stale when the last Poll was entered
  sent,         \* messages the broker took since the last doPoll began, per topic
  pubCalls,     \* Publish calls since the last doPoll began
  nFinalPolls,  \* Poll calls since the loop was left
  nOffline,     \* Publish calls for the offline announcement
  offlineErr,   \* the Publish of the offline announcement returned an error
  env,          \* config.Load: the process environment, name -> value
  file,         \* config.Load: what is found at the config path
  loadErr,      \* config.Load: the error returned ("none" before it returns)
  fake,         \* the FakePoller under test
  heap,         \* FakePoller: the backing arrays of the []Variable slices
  ret,          \* FakePoller: what the last Poll returned
  nCalls        \* FakePoller: Poll calls made by the test

cfgVars    == <<cfg, srcHasTarget, srcVars>>
tickVars   == <<tickPending, tickerOn, now>>
startVars  == <<backoff, attempts>>
sinkVars   == <<pubOpen, lwt>>
clientVars == <<conn, stale, sessions, nConn, closes, closeErr>>
cycleVars  == <<cycleKind, nCycles, outcome, prevOutcome, varMap, metrics, todo>>
pollVars   == <<pollErr, ops, staleAtEntry>>
busVars    == <<sent, pubCalls>>
countVars  == <<nFinalPolls, nOffline, offlineErr>>
loadVars   == <<env, file, loadErr>>
fakeVars   == <<fake, heap, ret, nCalls>>
auxVars    == <<loadVars, fakeVars>>

vars == <<pc, ctxDone, tickVars, startVars, cfgVars, auxVars, sinkVars, srcUp, live,
          clientVars, cycleVars, pollVars, busVars, countVars>>

\* the nil *gonut.Client
Nil == 0

\* the configuration is loaded and no FakePoller is in use
AuxIdle ==
  /\ env = <<>>
  /\ file = [kind |-> "none"]
  /\ loadErr = "nil"
  /\ fake = <<>>
  /\ heap = <<>>
  /\ ret = <<>>
  /\ nCalls = 0

\* time.Second, the first backoff of connectNUT, in seconds
InitialBackoff == 1
\* maxBackoff of connectNUT, in seconds
maxBackoff == 60

Init ==
  /\ pc = "start"
  /\ ctxDone = FALSE
  /\ tickPending = FALSE
  /\ tickerOn = FALSE
  /\ now = 0
  /\ backoff = 0
  /\ attempts = 0
  /\ cfg \in Configs
  /\ pubOpen = FALSE
  /\ lwt = <<>>
  /\ srcUp \in BOOLEAN
  /\ srcHasTarget \in BOOLEAN
  /\ srcVars \in Snapshots
  /\ live = {}
  /\ conn = Nil
  /\ stale = FALSE
  /\ sessions = {}
  /\ nConn = 0
  /\ closes = 0
  /\ closeErr = "none"
  /\ cycleKind = "none"
  /\ nCycles = 0
  /\ outcome = "none"
  /\ prevOutcome = "none"
  /\ varMap = <<>>
  /\ metrics = ZeroMetrics
  /\ todo = {}
  /\ pollErr = "none"
  /\ ops = <<>>
  /\ staleAtEntry = FALSE
  /\ sent = <<>>
  /\ pubCalls = 0
  /\ nFinalPolls = 0
  /\ nOffline = 0
  /\ offlineErr = FALSE
  /\ AuxIdle

(***************************************************************************)
(* internal/nut: Client.                                                   *)
(***************************************************************************)
\* what gonut.Connect and Authenticate can answer now
ConnectResults ==
  IF ~srcUp THEN {"dial_err"}
  ELSE IF cfg.Username # <<>> THEN {"ok", "auth_err"}
  ELSE {"ok"}

\* connect forgetting the session the client held when the reconnect fails
connect_ClearsOnFailure(res) ==
  /\ res \in ConnectResults
  /\ IF res = "ok"
       THEN /\ nConn' = nConn + 1
            /\ conn' = nConn + 1
            /\ stale' = FALSE
            /\ sessions' = sessions \cup {nConn + 1}
            /\ live' = live \cup {nConn + 1}
       ELSE /\ conn' = Nil
            /\ UNCHANGED <<nConn, stale, sessions, live>>
  /\ UNCHANGED <<closes, closeErr>>

connect_DropsSession(res) ==
  /\ res \in ConnectResults
  /\ IF res = "ok"
       THEN /\ nConn' = nConn + 1
            /\ stale' = FALSE
            /\ sessions' = sessions \cup {nConn + 1}
            /\ live' = live \cup {nConn + 1}
            /\ UNCHANGED conn
       ELSE UNCHANGED <<nConn, conn, stale, sessions, live>>
  /\ UNCHANGED <<closes, closeErr>>

\* Client.connect with result res: on success the new session replaces c.conn
\* and stale is cleared; a session whose authentication fails is disconnected
connect(res) ==
  /\ res \in ConnectResults
  /\ IF res = "ok"
       THEN /\ nConn' = nConn + 1
            /\ conn' = nConn + 1
            /\ stale' = FALSE
            /\ sessions' = sessions \cup {nConn + 1}
            /\ live' = live \cup {nConn + 1}
       ELSE UNCHANGED <<nConn, conn, stale, sessions, live>>
  /\ UNCHANGED <<closes, closeErr>>

\* NewClient: a fresh Client, then connect
NewClient(res) == connect(res)

(***************************************************************************)
(* cmd/ups-mqtt: doPoll, entered and left.                                 *)
(***************************************************************************)
\* main calls doPoll(nutClient, pub, cfg); kind is "tick" or "final"
EnterDoPoll(kind) ==
  /\ pc' = "poll"
  /\ cycleKind' = kind
  /\ nCycles' = IF nCycles < MaxTicks + 2 THEN nCycles + 1 ELSE nCycles
  /\ prevOutcome' = outcome
  /\ outcome' = "running"
  /\ varMap' = <<>>
  /\ metrics' = ZeroMetrics
  /\ todo' = {}
  /\ sent' = <<>>
  /\ pubCalls' = 0
  /\ UNCHANGED pollVars

AfterDoPoll_NoOffline(result) ==
  IF cycleKind = "final" THEN "close_nut" ELSE "loop"

AfterDoPoll_ErrorSkipsOffline(result) ==
  IF cycleKind = "final"
    THEN IF result = "ok" THEN "offline" ELSE "close_nut"
    ELSE "loop"

AfterDoPoll_RetriesFinal(result) ==
  IF cycleKind = "final"
    THEN IF result = "ok" THEN "offline" ELSE "poll"
    ELSE "loop"

AfterDoPoll_ErrorEndsLoop(result) ==
  IF cycleKind = "final" THEN "offline"
  ELSE IF result = "ok" THEN "loop" ELSE "fatal"

\* where main continues when doPoll has returned result: an error is logged,
\* then the loop selects again, or after the final poll the announcement follows
AfterDoPoll(result) == IF cycleKind = "final" THEN "offline" ELSE "loop"

\* doPoll returns result: "ok", "poll_err" or "publish_err"
ReturnDoPoll(result) ==
  /\ outcome' = result
  /\ pc' = AfterDoPoll(result)
  /\ varMap' = <<>>
  /\ metrics' = ZeroMetrics
  /\ todo' = {}
  /\ UNCHANGED <<cycleKind, nCycles, prevOutcome>>

FailPoll_PublishesAnyway(err) ==
  /\ pollErr' = err
  /\ pc' = "pub_metrics"
  /\ varMap' = <<>>
  /\ metrics' = ZeroMetrics
  /\ todo' = MetricNames
  /\ UNCHANGED <<cycleKind, nCycles, outcome, prevOutcome>>

\* doPoll calling Poll again when it failed
FailPoll_RetriesFetch(err) ==
  /\ pollErr' = err
  /\ pc' = "poll"
  /\ UNCHANGED cycleVars

\* Poll returns the error err: doPoll lines 120-122 return it, wrapped
FailPoll(err) ==
  /\ pollErr' = err
  /\ ReturnDoPoll("poll_err")

(***************************************************************************)
(* Client.Poll, in its three steps.                                        *)
(***************************************************************************)
NeedsConnect_Always == TRUE

\* Poll never finding that a reconnect is due
NeedsConnect_Never == FALSE

\* line 435: Poll reconnects first when the connection is stale
NeedsConnect == stale

StaleAfter_ListOnly(err) == err = "list"

StaleAfter_NotFoundToo(err) == err \in {"list", "not_found", "get"}

\* lines 443 and 460: the errors of Poll that mark the connection stale
StaleAfter(err) == err \in {"list", "get"}

\* lines 435-439: Poll is entered
PollReconnect ==
  /\ pc = "poll"
  /\ staleAtEntry' = stale
  /\ nFinalPolls' = IF cycleKind = "final" THEN nFinalPolls + 1 ELSE nFinalPolls
  /\ UNCHANGED <<nOffline, offlineErr, ctxDone, tickVars, startVars, cfgVars, auxVars, sinkVars,
                 srcUp, busVars>>
  /\ IF NeedsConnect
       THEN \E res \in ConnectResults :
              /\ connect(res)
              /\ ops' = <<"connect">>
              /\ IF res = "ok"
                   THEN /\ pc' = "poll_list"
                        /\ pollErr' = "none"
                        /\ UNCHANGED cycleVars
                   ELSE FailPoll("connect")
       ELSE /\ pc' = "poll_list"
            /\ pollErr' = "none"
            /\ ops' = <<>>
            /\ UNCHANGED <<clientVars, live, cycleVars>>

\* what GetUPSList and the search for c.upsName give now
ListResult ==
  IF conn \notin live THEN "list"
  ELSE IF ~srcHasTarget THEN "not_found"
  ELSE "none"

\* lines 441-456: GetUPSList, then the search for the configured UPS
PollList ==
  /\ pc = "poll_list"
  /\ ops' = Append(ops, "list")
  /\ UNCHANGED <<countVars, ctxDone, tickVars, startVars, cfgVars, auxVars, sinkVars, srcUp, live,
                 busVars, conn, sessions, nConn, closes, closeErr, staleAtEntry>>
  /\ IF conn = Nil
       THEN \* c.conn is nil: nil pointer dereference
            /\ pc' = "panic"
            /\ UNCHANGED <<stale, cycleVars, pollErr>>
       ELSE IF ListResult = "none"
         THEN /\ pc' = "poll_get"
              /\ UNCHANGED <<stale, cycleVars, pollErr>>
         ELSE /\ stale' = (stale \/ StaleAfter(ListResult))
              /\ FailPoll(ListResult)

\* lines 458-472: GetVariables; on success doPoll goes on to VarsToMap,
\* Compute and PublishAll, whose first range loop begins
PollGetVariables ==
  /\ pc = "poll_get"
  /\ ops' = Append(ops, "get")
  /\ UNCHANGED <<countVars, ctxDone, tickVars, startVars, cfgVars, auxVars, sinkVars, srcUp, live,
                 busVars, conn, sessions, nConn, closes, closeErr, staleAtEntry>>
  /\ IF conn \notin live
       THEN /\ stale' = (stale \/ StaleAfter("get"))
            /\ FailPoll("get")
       ELSE /\ UNCHANGED <<stale, pollErr, cycleKind, nCycles, outcome, prevOutcome>>
            /\ varMap' = VarsToMap(srcVars)
            /\ metrics' = Compute(VarsToMap(srcVars))
            /\ IF DOMAIN VarsToMap(srcVars) = {}
                 THEN pc' = "pub_metrics" /\ todo' = MetricNames
                 ELSE pc' = "pub_vars" /\ todo' = DOMAIN VarsToMap(srcVars)

\* what Disconnect on c.conn can return: an error only on a session upsd no
\* longer serves
DisconnectResults == IF conn \in live THEN {"nil"} ELSE {"nil", "err"}

Close_KeepsConn(res) ==
  /\ closes' = closes + 1
  /\ IF conn # Nil
       THEN /\ res \in DisconnectResults
            /\ sessions' = sessions \ {conn}
            /\ live' = live \ {conn}
            /\ closeErr' = res
       ELSE /\ res = "nil"
            /\ closeErr' = "nil"
            /\ UNCHANGED <<sessions, live>>
  /\ UNCHANGED <<conn, stale, nConn>>

\* Client.Close returning res: with a session, Disconnect it, forget it and
\* return Disconnect's result; with none, return nil
Close(res) ==
  /\ closes' = closes + 1
  /\ IF conn # Nil
       THEN /\ res \in DisconnectResults
            /\ sessions' = sessions \ {conn}
            /\ live' = live \ {conn}
            /\ conn' = Nil
            /\ closeErr' = res
       ELSE /\ res = "nil"
            /\ closeErr' = "nil"
            /\ UNCHANGED <<sessions, live, conn>>
  /\ UNCHANGED <<stale, nConn>>

(***************************************************************************)
(* internal/publisher: Publish, PublishAll, publishState.                  *)
(***************************************************************************)
\* Publisher.Publish(msg): the broker takes the message (ok) or the call fails
Publish(msg, ok) ==
  /\ pubCalls' = pubCalls + 1
  /\ sent' = IF ok THEN Deliver(sent, msg) ELSE sent

PublishAborts_Never(ok) == FALSE

\* PublishAll lines 62-64 and 70-72: a failed Publish ends PublishAll
PublishAborts(ok) == ~ok

PublishVariable_ThenState ==
  /\ pc = "pub_vars"
  /\ UNCHANGED <<countVars, ctxDone, tickVars, startVars, cfgVars, auxVars, sinkVars, srcUp, live,
                 clientVars, pollVars>>
  /\ \E name \in todo, ok \in BOOLEAN :
       /\ Publish([Topic |-> VarTopic(name), Payload |-> Text(varMap[name]),
                   Retained |-> cfg.Retained], ok)
       /\ IF PublishAborts(ok) THEN ReturnDoPoll("publish_err")
          ELSE /\ UNCHANGED <<cycleKind, nCycles, outcome, prevOutcome, varMap, metrics>>
               /\ IF todo = {name}
                    THEN pc' = "pub_state" /\ todo' = {}
                    ELSE pc' = "pub_vars" /\ todo' = todo \ {name}

\* PublishAll lines 60-65: one iteration of the range over vars; the order of
\* a range over a map is not fixed, any key not yet visited may come next
PublishVariable ==
  /\ pc = "pub_vars"
  /\ UNCHANGED <<countVars, ctxDone, tickVars, startVars, cfgVars, auxVars, sinkVars, srcUp, live,
                 clientVars, pollVars>>
  /\ \E name \in todo, ok \in BOOLEAN :
       /\ Publish([Topic |-> VarTopic(name), Payload |-> Text(varMap[name]),
                   Retained |-> cfg.Retained], ok)
       /\ IF PublishAborts(ok) THEN ReturnDoPoll("publish_err")
          ELSE /\ UNCHANGED <<cycleKind, nCycles, outcome, prevOutcome, varMap, metrics>>
               /\ IF todo = {name}
                    THEN pc' = "pub_metrics" /\ todo' = MetricNames
                    ELSE pc' = "pub_vars" /\ todo' = todo \ {name}

\* PublishAll lines 68-73: one iteration of the range over m.AsTopicMap()
PublishMetric ==
  /\ pc = "pub_metrics"
  /\ UNCHANGED <<countVars, ctxDone, tickVars, startVars, cfgVars, auxVars, sinkVars, srcUp, live,
                 clientVars, pollVars>>
  /\ \E name \in todo, ok \in BOOLEAN :
       /\ Publish([Topic |-> MetricTopic(name),
                   Payload |-> Text(AsTopicMap(metrics)[name]),
                   Retained |-> cfg.Retained], ok)
       /\ IF PublishAborts(ok) THEN ReturnDoPoll("publish_err")
          ELSE /\ UNCHANGED <<cycleKind, nCycles, outcome, prevOutcome, varMap, metrics>>
               /\ IF todo = {name}
                    THEN pc' = "pub_state" /\ todo' = {}
                    ELSE pc' = "pub_metrics" /\ todo' = todo \ {name}

\* publishState building the message from a Metrics of its own
publishState_ZeroComputed ==
  /\ pc = "pub_state"
  /\ UNCHANGED <<countVars, ctxDone, tickVars, startVars, cfgVars, auxVars, sinkVars, srcUp, live,
                 clientVars, pollVars>>
  /\ \E ok \in BOOLEAN :
       /\ Publish([Topic |-> StateTopic(Prefix, UPSName),
                   Payload |-> StateMessage(varMap, ZeroMetrics, now),
                   Retained |-> cfg.Retained], ok)
       /\ ReturnDoPoll(IF ok THEN "ok" ELSE "publish_err")

publishState_AlwaysRetained ==
  /\ pc = "pub_state"
  /\ UNCHANGED <<countVars, ctxDone, tickVars, startVars, cfgVars, auxVars, sinkVars, srcUp, live,
                 clientVars, pollVars>>
  /\ \E ok \in BOOLEAN :
       /\ Publish([Topic |-> StateTopic(Prefix, UPSName),
                   Payload |-> StateMessage(varMap, metrics, now),
                   Retained |-> TRUE], ok)
       /\ ReturnDoPoll(IF ok THEN "ok" ELSE "publish_err")

\* publishState: the combined JSON state; PublishAll and doPoll return its
\* result; when json.Marshal fails its error is returned and nothing is
\* published
publishState ==
  /\ pc = "pub_state"
  /\ UNCHANGED <<countVars, ctxDone, tickVars, startVars, cfgVars, auxVars, sinkVars, srcUp, live,
                 clientVars, pollVars>>
  /\ IF MarshalFails(metrics)
       THEN /\ ReturnDoPoll("marshal_err")
            /\ UNCHANGED busVars
       ELSE \E ok \in BOOLEAN :
              /\ Publish([Topic |-> StateTopic(Prefix, UPSName),
                          Payload |-> StateMessage(varMap, metrics, now),
                          Retained |-> cfg.Retained], ok)
              /\ ReturnDoPoll(IF ok THEN "ok" ELSE "publish_err")

(***************************************************************************)
(* cmd/ups-mqtt: main and connectNUT.                                      *)
(***************************************************************************)
Running == pc \notin {"done", "fatal", "panic"}

\* main going on to connectNUT although NewMQTTPublisher returned an error
NewMQTTPublisher_IgnoresError ==
  /\ pc = "start"
  /\ UNCHANGED <<countVars, ctxDone, tickVars, cfgVars, auxVars, srcUp, live, clientVars,
                 cycleVars, pollVars, busVars, attempts>>
  /\ \E ok \in BOOLEAN :
       IF ok
         THEN /\ pubOpen' = TRUE
              /\ lwt' = <<[Topic |-> StateTopic(Prefix, UPSName),
                           Payload |-> FormatOffline(now), Retained |-> TRUE]>>
              /\ backoff' = InitialBackoff
              /\ pc' = "connect_nut"
         ELSE /\ pc' = "connect_nut"
              /\ backoff' = InitialBackoff
              /\ UNCHANGED <<pubOpen, lwt>>

\* main lines 33-44: NewMQTTPublisher registers the will and connects; on
\* failure log.Fatalf ends the process, on success connectNUT is entered
NewMQTTPublisher ==
  /\ pc = "start"
  /\ UNCHANGED <<countVars, ctxDone, tickVars, cfgVars, auxVars, srcUp, live, clientVars,
                 cycleVars, pollVars, busVars, attempts>>
  /\ \E ok \in BOOLEAN :
       IF ok
         THEN /\ pubOpen' = TRUE
              /\ lwt' = <<[Topic |-> StateTopic(Prefix, UPSName),
                           Payload |-> FormatOffline(now), Retained |-> TRUE]>>
              /\ backoff' = InitialBackoff
              /\ pc' = "connect_nut"
         ELSE /\ pc' = "fatal"
              /\ UNCHANGED <<pubOpen, lwt, backoff>>

ConnectAttempt_GivesUp ==
  /\ pc = "connect_nut"
  /\ attempts < MaxAttempts
  /\ UNCHANGED <<countVars, ctxDone, tickPending, now, cfgVars, auxVars, sinkVars, srcUp,
                 cycleVars, pollVars, busVars>>
  /\ \E res \in ConnectResults :
       /\ NewClient(res)
       /\ backoff' = 0
       /\ attempts' = 0
       /\ IF res = "ok"
            THEN pc' = "loop" /\ tickerOn' = TRUE
            ELSE pc' = "close_pub" /\ UNCHANGED tickerOn

\* connectNUT lines 98-102: one NewClient attempt; on success main creates the
\* ticker and enters the loop
ConnectAttempt ==
  /\ pc = "connect_nut"
  /\ attempts < MaxAttempts
  /\ UNCHANGED <<countVars, ctxDone, tickPending, now, cfgVars, auxVars, sinkVars, srcUp,
                 cycleVars, pollVars, busVars>>
  /\ \E res \in ConnectResults :
       /\ NewClient(res)
       /\ IF res = "ok"
            THEN /\ pc' = "loop"
                 /\ tickerOn' = TRUE
                 /\ backoff' = 0
                 /\ attempts' = 0
            ELSE /\ pc' = "backoff"
                 /\ attempts' = attempts + 1
                 /\ UNCHANGED <<tickerOn, backoff>>

NextBackoff_NoCap(b) == b * 2

\* connectNUT lines 110-113: the backoff doubled, capped at maxBackoff
NextBackoff(b) == IF b * 2 > maxBackoff THEN maxBackoff ELSE b * 2

\* connectNUT lines 104-113: time.After(backoff) fires
BackoffElapsed ==
  /\ pc = "backoff"
  /\ backoff' = NextBackoff(backoff)
  /\ pc' = "connect_nut"
  /\ UNCHANGED <<countVars, ctxDone, tickVars, cfgVars, auxVars, sinkVars, srcUp, live, clientVars,
                 cycleVars, pollVars, busVars, attempts>>

\* main announcing offline although connectNUT was cancelled
BackoffCancelled_AnnouncesOffline ==
  /\ pc = "backoff"
  /\ ctxDone
  /\ pc' = "offline"
  /\ backoff' = 0
  /\ attempts' = 0
  /\ UNCHANGED <<countVars, ctxDone, tickVars, cfgVars, auxVars, sinkVars, srcUp, live,
                 clientVars, cycleVars, pollVars, busVars>>

\* connectNUT lines 105-106 and main lines 45-48: ctx.Done() is selected,
\* connectNUT returns ctx.Err() and main returns
BackoffCancelled ==
  /\ pc = "backoff"
  /\ ctxDone
  /\ pc' = "close_pub"
  /\ backoff' = 0
  /\ attempts' = 0
  /\ UNCHANGED <<countVars, ctxDone, tickVars, cfgVars, auxVars, sinkVars, srcUp, live, clientVars,
                 cycleVars, pollVars, busVars>>

\* the loop taking a tick while the doPoll of the tick before is still running,
\* as it would were doPoll started in a goroutine of its own
SelectTick_WhileInFlight ==
  /\ pc \in {"loop", "pub_vars", "pub_metrics", "pub_state"}
  /\ tickPending
  /\ tickPending' = FALSE
  /\ EnterDoPoll("tick")
  /\ UNCHANGED <<countVars, ctxDone, tickerOn, now, startVars, cfgVars, auxVars, sinkVars, srcUp,
                 live, clientVars>>

\* the loop taking a tick that stays in the channel, as a queue of ticks
\* would have it
SelectTick_KeepsTick ==
  /\ pc = "loop"
  /\ tickPending
  /\ tickPending' = tickPending
  /\ EnterDoPoll("tick")
  /\ UNCHANGED <<countVars, ctxDone, tickerOn, now, startVars, cfgVars, auxVars, sinkVars,
                 srcUp, live, clientVars>>

\* main lines 60-64: the select takes the tick and calls doPoll
SelectTick ==
  /\ pc = "loop"
  /\ tickPending
  /\ tickPending' = FALSE
  /\ EnterDoPoll("tick")
  /\ UNCHANGED <<countVars, ctxDone, tickerOn, now, startVars, cfgVars, auxVars, sinkVars, srcUp,
                 live, clientVars>>

\* main lines 65-74: the select takes ctx.Done(), the loop is left, the ticker
\* is stopped and the final doPoll is called
SelectDone ==
  /\ pc = "loop"
  /\ ctxDone
  /\ tickerOn' = FALSE
  /\ EnterDoPoll("final")
  /\ UNCHANGED <<countVars, ctxDone, tickPending, now, startVars, cfgVars, auxVars, sinkVars,
                 srcUp, live, clientVars>>

PublishOffline_ConfiguredRetention ==
  /\ pc = "offline"
  /\ nOffline' = nOffline + 1
  /\ pc' = "close_nut"
  /\ \E ok \in BOOLEAN :
       /\ Publish([Topic |-> StateTopic(Prefix, UPSName),
                   Payload |-> FormatOffline(now), Retained |-> cfg.Retained], ok)
       /\ offlineErr' = ~ok
  /\ UNCHANGED <<nFinalPolls, ctxDone, tickVars, startVars, cfgVars, auxVars, sinkVars, srcUp,
                 live, clientVars, cycleVars, pollVars>>

\* main lines 78-86: the offline announcement, whatever doPoll returned
PublishOffline ==
  /\ pc = "offline"
  /\ nOffline' = nOffline + 1
  /\ pc' = "close_nut"
  /\ \E ok \in BOOLEAN :
       /\ Publish([Topic |-> StateTopic(Prefix, UPSName),
                   Payload |-> FormatOffline(now), Retained |-> TRUE], ok)
       /\ offlineErr' = ~ok
  /\ UNCHANGED <<nFinalPolls, ctxDone, tickVars, startVars, cfgVars, auxVars, sinkVars, srcUp,
                 live, clientVars, cycleVars, pollVars>>

\* main returning without the deferred nutClient.Close()
CloseNUT_Skipped ==
  /\ pc = "close_nut"
  /\ pc' = "close_pub"
  /\ UNCHANGED <<countVars, ctxDone, tickVars, startVars, cfgVars, auxVars, sinkVars, srcUp,
                 live, clientVars, cycleVars, pollVars, busVars>>

\* main line 49, deferred: nutClient.Close()
CloseNUT ==
  /\ pc = "close_nut"
  /\ \E res \in {"nil", "err"} : Close(res)
  /\ pc' = "close_pub"
  /\ UNCHANGED <<countVars, ctxDone, tickVars, startVars, cfgVars, auxVars, sinkVars, srcUp,
                 cycleVars, pollVars, busVars>>

\* main line 41, deferred: pub.Close(); then the process ends
ClosePublisher ==
  /\ pc = "close_pub"
  /\ pubOpen' = FALSE
  /\ pc' = "done"
  /\ UNCHANGED <<countVars, ctxDone, tickVars, startVars, cfgVars, auxVars, lwt, srcUp, live,
                 clientVars, cycleVars, pollVars, busVars>>

(***************************************************************************)
(* The environment: the signal, the ticker, upsd.                          *)
(***************************************************************************)
\* SIGTERM or SIGINT arrives: signal.NotifyContext closes ctx.Done()
Signal ==
  /\ Running
  /\ ~ctxDone
  /\ ctxDone' = TRUE
  /\ UNCHANGED <<pc, countVars, tickVars, startVars, cfgVars, auxVars, sinkVars, srcUp, live,
                 clientVars, cycleVars, pollVars, busVars>>

\* a poll interval passes: the ticker sends on ticker.C, which holds one tick;
\* a tick that finds the channel full is dropped
Tick ==
  /\ Running
  /\ tickerOn
  /\ now < MaxTicks
  /\ now' = now + 1
  /\ tickPending' = TRUE
  /\ UNCHANGED <<pc, countVars, ctxDone, tickerOn, startVars, cfgVars, auxVars, sinkVars, srcUp,
                 live, clientVars, cycleVars, pollVars, busVars>>

\* upsd stops: every session it served is lost
SourceDown ==
  /\ Running
  /\ srcUp
  /\ srcUp' = FALSE
  /\ live' = {}
  /\ UNCHANGED <<pc, countVars, ctxDone, tickVars, startVars, cfgVars, auxVars, sinkVars,
                 clientVars, cycleVars, pollVars, busVars>>

\* upsd accepts connections again
SourceUp ==
  /\ Running
  /\ ~srcUp
  /\ srcUp' = TRUE
  /\ UNCHANGED <<pc, countVars, ctxDone, tickVars, startVars, cfgVars, auxVars, sinkVars, live,
                 clientVars, cycleVars, pollVars, busVars>>

Next ==
  \/ NewMQTTPublisher
  \/ ConnectAttempt
  \/ BackoffElapsed
  \/ BackoffCancelled
  \/ SelectTick
  \/ SelectDone
  \/ PollReconnect
  \/ PollList
  \/ PollGetVariables
  \/ PublishVariable
  \/ PublishMetric
  \/ publishState
  \/ PublishOffline
  \/ CloseNUT
  \/ ClosePublisher
  \/ Signal
  \/ Tick
  \/ SourceDown
  \/ SourceUp

Spec == Init /\ [][Next]_vars

(***************************************************************************)
(* What a subscriber and the log can observe.                              *)
(***************************************************************************)
\* the messages the broker took on topic t since the last doPoll began
OnTopic(t) == IF t \in DOMAIN sent THEN sent[t] ELSE <<>>

\* the messages on the combined-state topic
OnStateTopic == OnTopic(StateTopic(Prefix, UPSName))

\* e carries a StateMessage
IsState(e) == "json" \in DOMAIN e.Payload /\ "variables" \in DOMAIN e.Payload.json

\* e carries the offline announcement
IsOffline(e) == "json" \in DOMAIN e.Payload /\ "online" \in DOMAIN e.Payload.json

\* the sum of f over the set S of its arguments
RECURSIVE SumOver(_, _)
SumOver(f, S) ==
  IF S = {} THEN 0
  ELSE LET x == CHOOSE y \in S : TRUE IN f[x] + SumOver(f, S \ {x})

\* the number of messages the broker took since the last doPoll began
Delivered == SumOver([t \in DOMAIN sent |-> Len(sent[t])], DOMAIN sent)

\* the topics of the variables and of the metrics of the source's snapshot
VarTopics == {VarTopic(srcVars[i].Name) : i \in 1..Len(srcVars)}
MetricTopics == {MetricTopic(n) : n \in MetricNames}

\* the full message set of one cycle is on the bus, and nothing else: one
\* message per variable, one per metric, one combined state
FullSet ==
  /\ DOMAIN sent = VarTopics \cup MetricTopics \cup {StateTopic(Prefix, UPSName)}
  /\ \A t \in DOMAIN sent : Len(sent[t]) = 1
  /\ \A name \in DOMAIN VarsToMap(srcVars) :
       sent[VarTopic(name)][1].Payload = Text(VarsToMap(srcVars)[name])
  /\ IsState(OnStateTopic[1])

\* main has left the loop and is past the offline announcement
AfterOffline == cycleKind = "final" /\ pc \in {"close_nut", "close_pub", "done"}

(***************************************************************************)
(* C1. On shutdown after a successful final cycle the combined-state       *)
(* message is handed to the publisher exactly once and the offline         *)
(* announcement exactly once, and on the state topic the state message     *)
(* comes strictly before the offline announcement: before the announcement *)
(* is published the topic holds the state message alone, afterwards the    *)
(* state message first and the announcement, when the broker took it,      *)
(* second.                                                                 *)
(***************************************************************************)
C1_FinalStateBeforeOffline ==
  (cycleKind = "final" /\ outcome = "ok") =>
    /\ Len(OnStateTopic) >= 1
    /\ IsState(OnStateTopic[1])
    /\ \A i \in 2..Len(OnStateTopic) : IsOffline(OnStateTopic[i])
    /\ pc = "offline" => (nOffline = 0 /\ Len(OnStateTopic) = 1)
    /\ AfterOffline =>
         /\ nOffline = 1
         /\ pubCalls = Delivered + (IF offlineErr THEN 1 ELSE 0)
         /\ Len(OnStateTopic) = (IF offlineErr THEN 1 ELSE 2)

C1_Witness ==
  /\ pc = "done"
  /\ cycleKind = "final"
  /\ outcome = "ok"
  /\ Len(OnStateTopic) = 2
  /\ IsState(OnStateTopic[1])
  /\ IsOffline(OnStateTopic[2])

(***************************************************************************)
(* C2. Once the loop is left because of cancellation, the publish of the   *)
(* offline announcement is attempted exactly once whatever the final cycle *)
(* returned: never more than once, not before the final cycle has          *)
(* returned, and once when main goes on to its deferred closes.            *)
(***************************************************************************)
C2_OfflineAttemptedOnce ==
  /\ nOffline <= 1
  /\ (cycleKind # "final" \/ outcome = "running" \/ pc = "offline") => nOffline = 0
  /\ AfterOffline => nOffline = 1

C2_Witness ==
  /\ pc = "done"
  /\ cycleKind = "final"
  /\ outcome = "publish_err"
  /\ Delivered >= 2
  /\ nOffline = 1

(***************************************************************************)
(* C3. The shutdown sequence runs exactly one more cycle: between the      *)
(* observation of cancellation and the offline announcement Poll is called *)
(* exactly once, and a final cycle that failed is not run again.           *)
(***************************************************************************)
C3_OneFinalCycle ==
  /\ nFinalPolls <= 1
  /\ cycleKind # "final" => nFinalPolls = 0
  /\ (cycleKind = "final" /\ pc # "poll") => nFinalPolls = 1
  /\ (cycleKind = "final" /\ outcome # "running") =>
       pc \in {"offline", "close_nut", "close_pub", "done"}

C3_Witness ==
  /\ pc = "offline"
  /\ outcome = "poll_err"
  /\ nFinalPolls = 1

(***************************************************************************)
(* C4. Once the cancellation signal has fired, no tick-triggered cycle is  *)
(* started, even when a tick is pending at the same moment.                *)
(***************************************************************************)
C4_NoTickCycleAfterSignal ==
  [][~(ctxDone /\ pc = "loop" /\ pc' = "poll" /\ cycleKind' = "tick")]_vars

(***************************************************************************)
(* C5. A cycle whose Poll fails publishes nothing: no Publish call is made *)
(* and the bus holds no message of it; and a cycle that follows a failed   *)
(* one and succeeds has published the full message set.                    *)
(***************************************************************************)
C5_FailedFetchPublishesNothing ==
  /\ (outcome = "poll_err" /\ nOffline = 0) => (pubCalls = 0 /\ sent = <<>>)
  /\ (outcome = "running" /\ pollErr # "none") => (pubCalls = 0 /\ sent = <<>>)
  /\ (prevOutcome = "poll_err" /\ outcome = "ok" /\ nOffline = 0) =>
       (FullSet /\ pubCalls = Delivered)

C5_Witness ==
  /\ prevOutcome = "poll_err"
  /\ outcome = "ok"
  /\ cycleKind = "tick"
  /\ FullSet

(***************************************************************************)
(* C6. Within a cycle the first failing Publish ends the publishing: no    *)
(* Publish call follows it, doPoll returns the error, and every message    *)
(* published before it is still on the bus.  What reached the bus is a     *)
(* prefix of the publish order: each topic at most once, a metric only     *)
(* after every variable, the combined state only after every metric.       *)
(***************************************************************************)
PublishPhases == {"pub_vars", "pub_metrics", "pub_state"}

C6_FirstPublishFailureAborts ==
  nOffline = 0 =>
    /\ pubCalls \in {Delivered, Delivered + 1}
    /\ pubCalls > Delivered <=> outcome = "publish_err"
    /\ outcome = "publish_err" => pc \notin PublishPhases
    /\ DOMAIN sent \subseteq VarTopics \cup MetricTopics \cup {StateTopic(Prefix, UPSName)}
    /\ \A t \in DOMAIN sent : Len(sent[t]) = 1
    /\ DOMAIN sent \cap MetricTopics # {} => VarTopics \subseteq DOMAIN sent
    /\ StateTopic(Prefix, UPSName) \in DOMAIN sent =>
         (VarTopics \cup MetricTopics) \subseteq DOMAIN sent
    /\ outcome = "publish_err" => StateTopic(Prefix, UPSName) \notin DOMAIN sent

C6_Witness ==
  /\ outcome = "publish_err"
  /\ nOffline = 0
  /\ pc = "loop"
  /\ pubCalls = 3
  /\ Delivered = 2

(***************************************************************************)
(* C7. No error of a tick-triggered cycle stops the loop or the process:   *)
(* whatever such a cycle returns, main is back at the select with the      *)
(* ticker running; every tick taken from ticker.C starts a cycle; and the  *)
(* loop is left only for a cycle, the final one only once ctx.Done() is    *)
(* closed.                                                                 *)
(***************************************************************************)
C7_Step ==
  /\ (cycleKind = "tick" /\ outcome = "running" /\ outcome' # "running") =>
       (pc' = "loop" /\ tickerOn')
  /\ (cycleKind = "tick" /\ outcome = "running") =>
       pc' \in {"poll", "poll_list", "poll_get", "loop"} \cup PublishPhases
  /\ (tickPending /\ ~tickPending') =>
       (pc = "loop" /\ pc' = "poll" /\ cycleKind' = "tick")
  /\ (pc = "loop" /\ pc' # "loop") =>
       (pc' = "poll" /\ (cycleKind' = "tick" \/ (ctxDone /\ cycleKind' = "final")))

C7_CycleErrorsNeverStopLoop == [][C7_Step]_vars

C7_Witness ==
  /\ pc = "loop"
  /\ cycleKind = "tick"
  /\ prevOutcome = "poll_err"
  /\ outcome = "publish_err"
  /\ tickerOn
  /\ ~ctxDone

(***************************************************************************)
(* C8. A Poll that fails at GetUPSList or at GetVariables leaves the       *)
(* client stale and returns the failure, and the reconnect is lazy: the    *)
(* failing step is the last source operation of that Poll, and a connect   *)
(* is only ever the first operation of a Poll, made when the Poll was      *)
(* entered stale.                                                          *)
(***************************************************************************)
C8_FailureMarksStaleLazily ==
  /\ pollErr \in {"list", "get"} =>
       /\ stale
       /\ ops # <<>>
       /\ ops[Len(ops)] = pollErr
       /\ pc # "poll" => outcome = "poll_err"
  /\ \A i \in 2..Len(ops) : ops[i] # "connect"
  /\ (ops # <<>> /\ ops[1] = "connect") <=> staleAtEntry

C8_Witness ==
  /\ pollErr = "get"
  /\ ops = <<"list", "get">>
  /\ stale
  /\ outcome = "poll_err"

(***************************************************************************)
(* C9. A Poll entered stale connects first: when the connect succeeds the  *)
(* client is no longer stale and the Poll goes on to list and retrieve;    *)
(* when it fails the Poll returns that error with no list and no retrieve  *)
(* and the client stays stale.  A Poll entered not stale makes no connect. *)
(***************************************************************************)
C9_StaleFetchConnectsFirst ==
  /\ staleAtEntry => (ops # <<>> /\ ops[1] = "connect")
  /\ ~staleAtEntry => \A i \in 1..Len(ops) : ops[i] # "connect"
  /\ pollErr = "connect" =>
       /\ staleAtEntry
       /\ stale
       /\ ops = <<"connect">>
       /\ pc # "poll" => outcome = "poll_err"
  /\ (staleAtEntry /\ pollErr = "none") =>
       /\ ~stale
       /\ pc = "poll_list" => ops = <<"connect">>
       /\ pc = "poll_get" => ops = <<"connect", "list">>
       /\ pc \notin {"poll_list", "poll_get"} => ops = <<"connect", "list", "get">>

C9_Witness ==
  /\ staleAtEntry
  /\ ~stale
  /\ outcome = "ok"
  /\ ops = <<"connect", "list", "get">>

(***************************************************************************)
(* C10. While the source lists UPSes but not the configured one, every     *)
(* cycle fails and publishes nothing, a Poll whose listing succeeded fails *)
(* with not-found, that failure does not mark the client stale, the Poll   *)
(* after it makes no connect, and a tick-triggered cycle that failed this  *)
(* way leaves main at the select.                                          *)
(***************************************************************************)
C10_Inv ==
  /\ pollErr = "not_found" =>
       /\ ~stale
       /\ ops[Len(ops)] = "list"
       /\ pc # "poll" => outcome = "poll_err"
       /\ (cycleKind = "tick" /\ pc # "poll") => pc = "loop"
  /\ ~srcHasTarget =>
       /\ pc \notin {"poll_get", "panic"} \cup PublishPhases
       /\ outcome \notin {"ok", "publish_err"}
       /\ nOffline = 0 => (sent = <<>> /\ pubCalls = 0)
       /\ pollErr \in {"none", "connect", "list", "not_found"}

C10_Step ==
  (pollErr = "not_found" /\ pc = "poll" /\ pc' # "poll") =>
    (pc' = "poll_list" /\ ops' = <<>> /\ ~staleAtEntry')

C11_Inv ==
  /\ pc = "backoff" =>
       /\ attempts >= 1
       /\ backoff = (IF 2^(attempts - 1) < 60 THEN 2^(attempts - 1) ELSE 60)
  /\ backoff <= 60

C11_Step ==
  (pc \in {"connect_nut", "backoff"} /\ pc' \in {"connect_nut", "backoff"}) =>
    backoff' >= backoff

C11_BackoffSchedule == []C11_Inv /\ [][C11_Step]_vars

C11_Witness ==
  /\ pc = "backoff"
  /\ attempts = 8
  /\ backoff = 60

(***************************************************************************)
(* C12. connectNUT never returns a connection failure: it is left only     *)
(* with a connected client, main then entering the loop, or from a backoff *)
(* wait with ctx.Done() closed.  After that cancellation no connection     *)
(* attempt is made, no cycle runs and nothing is published: main goes to   *)
(* its deferred pub.Close() and the process ends.                          *)
(***************************************************************************)
InConnectNUT == pc \in {"connect_nut", "backoff"}

C12_Inv ==
  /\ (InConnectNUT \/ (cycleKind = "none" /\ pc \in {"close_pub", "done"})) =>
       /\ nConn = 0
       /\ conn = Nil
       /\ pubCalls = 0
       /\ sent = <<>>
       /\ nOffline = 0
       /\ nFinalPolls = 0
  /\ (cycleKind = "none" /\ pc \in {"close_pub", "done"}) => ctxDone

C12_Step ==
  /\ (InConnectNUT /\ pc' # pc) =>
       \/ pc = "connect_nut" /\ pc' = "loop" /\ conn' # Nil /\ conn' \in live'
            /\ ~stale' /\ tickerOn'
       \/ pc = "connect_nut" /\ pc' = "backoff" /\ conn' = Nil /\ attempts' = attempts + 1
       \/ pc = "backoff" /\ pc' = "connect_nut"
       \/ pc = "backoff" /\ pc' = "close_pub" /\ ctxDone
  /\ (cycleKind = "none" /\ pc = "close_pub") => pc' \in {"close_pub", "done"}
  /\ pc = "done" => pc' = "done"

C12_StartupNeverFails == []C12_Inv /\ [][C12_Step]_vars

C12_Witness ==
  /\ pc = "done"
  /\ cycleKind = "none"
  /\ ctxDone
  /\ nConn = 0
  /\ ~pubOpen
  /\ lwt # <<>>

(***************************************************************************)
(* Progress of connectNUT: NewClient returns and is called again after     *)
(* each wait, and time.After(backoff) fires after at most maxBackoff.      *)
(***************************************************************************)
LiveSpec ==
  /\ Init
  /\ [][Next]_vars
  /\ WF_vars(ConnectAttempt)
  /\ WF_vars(BackoffElapsed)

(***************************************************************************)
(* C13. If cancellation never occurs and the connection attempts succeed   *)
(* before the MaxAttempts-th consecutive failure, connectNUT, once         *)
(* entered, eventually returns a connected client: a live session that is  *)
(* not stale; main is then in the loop with the ticker running.            *)
(***************************************************************************)
AttemptsExhausted == pc = "connect_nut" /\ attempts = MaxAttempts

StartupDone ==
  /\ pc = "loop"
  /\ conn # Nil
  /\ conn \in live
  /\ ~stale
  /\ tickerOn

C13_StartupEventuallyConnects ==
  ([]~ctxDone /\ []~AttemptsExhausted) => [](pc = "connect_nut" => <>StartupDone)

C13_Witness ==
  /\ StartupDone
  /\ cycleKind = "none"
  /\ ~ctxDone
  /\ nConn = 1
  /\ ~tickPending

(***************************************************************************)
(* A Client used on its own, as the tests of internal/nut use it: it       *)
(* starts with no session, connect and Close are called in any order while *)
(* upsd goes down and comes back.                                          *)
(***************************************************************************)
ClientInit ==
  /\ pc = "client"
  /\ ctxDone = FALSE
  /\ tickPending = FALSE
  /\ tickerOn = FALSE
  /\ now = 0
  /\ backoff = 0
  /\ attempts = 0
  /\ cfg \in Configs
  /\ pubOpen = FALSE
  /\ lwt = <<>>
  /\ srcUp \in BOOLEAN
  /\ srcHasTarget \in BOOLEAN
  /\ srcVars \in Snapshots
  /\ live = {}
  /\ conn = Nil
  /\ stale = FALSE
  /\ sessions = {}
  /\ nConn = 0
  /\ closes = 0
  /\ closeErr = "none"
  /\ cycleKind = "none"
  /\ nCycles = 0
  /\ outcome = "none"
  /\ prevOutcome = "none"
  /\ varMap = <<>>
  /\ metrics = ZeroMetrics
  /\ todo = {}
  /\ pollErr = "none"
  /\ ops = <<>>
  /\ staleAtEntry = FALSE
  /\ sent = <<>>
  /\ pubCalls = 0
  /\ nFinalPolls = 0
  /\ nOffline = 0
  /\ offlineErr = FALSE
  /\ AuxIdle

\* the variables connect and Close leave alone
notClient ==
  <<pc, ctxDone, tickVars, startVars, cfgVars, auxVars, sinkVars, srcUp, cycleVars, pollVars,
    busVars, countVars>>

\* c.connect() is called
ClientConnect ==
  /\ pc = "client"
  /\ nConn < MaxSessions
  /\ \E res \in ConnectResults : connect(res)
  /\ UNCHANGED notClient

\* c.Close() is called
ClientClose ==
  /\ pc = "client"
  /\ closes < MaxCloses
  /\ \E res \in {"nil", "err"} : Close(res)
  /\ UNCHANGED notClient

ClientNext ==
  \/ ClientConnect
  \/ ClientClose
  \/ SourceDown
  \/ SourceUp

ClientSpec == ClientInit /\ [][ClientNext]_vars

(***************************************************************************)
(* C14. Close is idempotent: called with no session it returns nil and     *)
(* changes nothing of the client or of any session; every Close leaves the *)
(* client with no session, so each further Close is such a call; a Close   *)
(* with a session touches that session only.                               *)
(***************************************************************************)
C14_Step ==
  closes' = closes + 1 =>
    /\ conn' = Nil
    /\ conn = Nil =>
         (closeErr' = "nil" /\ UNCHANGED <<sessions, live, conn, stale, nConn>>)
    /\ conn # Nil =>
         (sessions' = sessions \ {conn} /\ live' = live \ {conn})

C14_CloseIdempotent == [][C14_Step]_vars

C14_Witness ==
  /\ closes = 3
  /\ nConn = 1
  /\ conn = Nil
  /\ closeErr = "nil"
  /\ sessions = {}

(***************************************************************************)
(* C15. Within one cycle the messages are published in the fixed group     *)
(* order: while a variable is being published only variable messages are   *)
(* out; a metric is published only when every variable message is out; the *)
(* combined state is published last, when every variable and every metric  *)
(* message is out.                                                         *)
(***************************************************************************)
TheStateTopic == StateTopic(Prefix, UPSName)

C15_Inv ==
  /\ pc = "pub_vars" => (DOMAIN sent \subseteq VarTopics /\ DOMAIN sent # VarTopics)
  /\ pc = "pub_metrics" =>
       /\ VarTopics \subseteq DOMAIN sent
       /\ DOMAIN sent \subseteq VarTopics \cup MetricTopics
       /\ ~(MetricTopics \subseteq DOMAIN sent)
  /\ pc = "pub_state" => DOMAIN sent = VarTopics \cup MetricTopics

C15_Step ==
  \A t \in DOMAIN sent' \ DOMAIN sent :
    pc # "offline" =>
      /\ t \in VarTopics => (pc = "pub_vars" /\ DOMAIN sent \subseteq VarTopics)
      /\ t \in MetricTopics => (pc = "pub_metrics" /\ VarTopics \subseteq DOMAIN sent)
      /\ t = TheStateTopic =>
           (pc = "pub_state" /\ DOMAIN sent = VarTopics \cup MetricTopics)
      /\ t \in VarTopics \cup MetricTopics \cup {TheStateTopic}

C15_GroupOrder == []C15_Inv /\ [][C15_Step]_vars

C15_Witness ==
  /\ pc = "pub_state"
  /\ Cardinality(VarTopics) = 2
  /\ DOMAIN sent = VarTopics \cup MetricTopics
  /\ pubCalls = 9

(***************************************************************************)
(* C16. A cycle in which every Publish succeeds publishes exactly one      *)
(* message for each variable name of the snapshot, one for each of the 7   *)
(* metrics and one combined state: as many Publish calls as names plus 8,  *)
(* each on a topic of its own.                                             *)
(***************************************************************************)
SnapshotNames == {srcVars[i].Name : i \in 1..Len(srcVars)}

C16_OneMessageEach ==
  (outcome = "ok" /\ nOffline = 0) =>
    /\ pubCalls = Cardinality(SnapshotNames) + 8
    /\ Delivered = pubCalls
    /\ Cardinality(DOMAIN sent) = pubCalls
    /\ \A t \in DOMAIN sent : Len(sent[t]) = 1
    /\ Cardinality(DOMAIN sent \cap VarTopics) = Cardinality(SnapshotNames)
    /\ Cardinality(DOMAIN sent \cap MetricTopics) = 7
    /\ TheStateTopic \in DOMAIN sent

C16_Witness ==
  /\ outcome = "ok"
  /\ nOffline = 0
  /\ Len(srcVars) = 3
  /\ Cardinality(SnapshotNames) = 2
  /\ pubCalls = 10

(***************************************************************************)
(* C17. Every message a cycle publishes, on a variable topic, on a metric  *)
(* topic or as the combined state, carries cfg.Retained, whichever value   *)
(* the configuration gives it.                                             *)
(***************************************************************************)
C17_ConfiguredRetention ==
  \A t \in DOMAIN sent : \A i \in 1..Len(sent[t]) :
    ~IsOffline(sent[t][i]) => sent[t][i].Retained = cfg.Retained

C17_Witness ==
  /\ cfg.Retained = FALSE
  /\ outcome = "ok"
  /\ nOffline = 0
  /\ FullSet
  /\ \A t \in DOMAIN sent : sent[t][1].Retained = FALSE

(***************************************************************************)
(* C18. The offline announcement and the will registered with the broker   *)
(* both use the topic {prefix}/{upsName}/state, carry a JSON object with   *)
(* online = false and a timestamp and nothing else, and are retained       *)
(* whatever cfg.Retained is.                                               *)
(***************************************************************************)
ExpectedStateTopic == <<"u","p","s","/","c","p","/","s","t","a","t","e">>

OfflineShape(p) ==
  /\ DOMAIN p = {"json"}
  /\ DOMAIN p.json = {"online", "timestamp"}
  /\ p.json.online = FALSE
  /\ p.json.timestamp \in 0..now

C18_OfflineAndWill ==
  /\ \A t \in DOMAIN sent : \A i \in 1..Len(sent[t]) :
       IsOffline(sent[t][i]) =>
         /\ t = ExpectedStateTopic
         /\ sent[t][i].Retained = TRUE
         /\ OfflineShape(sent[t][i].Payload)
  /\ (AfterOffline /\ ~offlineErr) =>
       /\ ExpectedStateTopic \in DOMAIN sent
       /\ IsOffline(sent[ExpectedStateTopic][Len(sent[ExpectedStateTopic])])
  /\ pubOpen => lwt # <<>>
  /\ lwt # <<>> =>
       /\ Len(lwt) = 1
       /\ lwt[1].Topic = ExpectedStateTopic
       /\ lwt[1].Retained = TRUE
       /\ OfflineShape(lwt[1].Payload)

C18_Witness ==
  /\ pc = "done"
  /\ cfg.Retained = FALSE
  /\ nOffline = 1
  /\ ~offlineErr
  /\ lwt # <<>>
  /\ IsOffline(sent[ExpectedStateTopic][Len(sent[ExpectedStateTopic])])

(***************************************************************************)
(* C19. For every variable of the snapshot, the value the source holds     *)
(* under its name is published unmodified, as the whole payload, on the    *)
(* topic {prefix}/{upsName}/ followed by the name with every '.' replaced  *)
(* by '/'; nothing else is published outside the metric and state topics.  *)
(***************************************************************************)
ExpectedVarTopic(name) ==
  <<"u","p","s","/","c","p","/">> \o
    [i \in 1..Len(name) |-> IF name[i] = "." THEN "/" ELSE name[i]]

\* the value of the last entry of the snapshot that carries name
SnapshotValue(name) ==
  LET last == CHOOSE i \in 1..Len(srcVars) :
                /\ srcVars[i].Name = name
                /\ \A j \in (i + 1)..Len(srcVars) : srcVars[j].Name # name
  IN srcVars[last].Value

C19_RawValueOnDottedTopic ==
  /\ \A name \in SnapshotNames :
       /\ (outcome = "ok" /\ nOffline = 0) => ExpectedVarTopic(name) \in DOMAIN sent
       /\ ExpectedVarTopic(name) \in DOMAIN sent =>
            /\ Len(sent[ExpectedVarTopic(name)]) = 1
            /\ sent[ExpectedVarTopic(name)][1].Payload = [text |-> SnapshotValue(name)]
  /\ \A t \in DOMAIN sent :
       \/ t \in MetricTopics
       \/ t = ExpectedStateTopic
       \/ \E name \in SnapshotNames : t = ExpectedVarTopic(name)

C19_Witness ==
  /\ outcome = "ok"
  /\ nOffline = 0
  /\ <<"u","p","s","/","c","p","/","u","p","s","/","r","e","a","l","p","o","w","e","r",
       "/","n","o","m","i","n","a","l">> \in DOMAIN sent
  /\ sent[ExpectedVarTopic(K_ups_load)][1].Payload = [text |-> <<"8">>]

(***************************************************************************)
(* C20, as claimed.  The combined-state payload is a JSON object with      *)
(* exactly four top-level fields, named timestamp, target_name, variables  *)
(* and computed, where variables is the snapshot and computed is the       *)
(* 7-field derived-metrics record.                                         *)
(***************************************************************************)
\* the combined-state messages on the bus
StateEntries ==
  IF ExpectedStateTopic \in DOMAIN sent
    THEN {sent[ExpectedStateTopic][i] : i \in 1..Len(sent[ExpectedStateTopic])}
           \ {e \in {sent[ExpectedStateTopic][i] : i \in 1..Len(sent[ExpectedStateTopic])} :
                IsOffline(e)}
    ELSE {}

SnapshotMap == [name \in SnapshotNames |-> SnapshotValue(name)]

ComputedFields ==
  {"load_watts", "battery_runtime_mins", "battery_runtime_hours", "on_battery",
   "low_battery", "status_display", "input_voltage_deviation_pct"}

StateBody(o) ==
  /\ o.timestamp \in 0..now
  /\ o.variables = SnapshotMap
  /\ DOMAIN o.computed = ComputedFields
  /\ o.computed = Compute(SnapshotMap)

C20_TargetNameField ==
  \A e \in StateEntries :
    /\ DOMAIN e.Payload = {"json"}
    /\ DOMAIN e.Payload.json = {"timestamp", "target_name", "variables", "computed"}
    /\ StateBody(e.Payload.json)

(***************************************************************************)
(* C20, amended.  The combined-state payload is a JSON object with exactly *)
(* four top-level fields, named timestamp, ups_name, variables and         *)
(* computed, where ups_name is the configured UPS name, variables is the   *)
(* snapshot and computed is the 7-field derived-metrics record.            *)
(***************************************************************************)
C20_UpsNameField ==
  /\ \A e \in StateEntries :
       /\ DOMAIN e.Payload = {"json"}
       /\ DOMAIN e.Payload.json = {"timestamp", "ups_name", "variables", "computed"}
       /\ e.Payload.json.ups_name = <<"c","p">>
       /\ StateBody(e.Payload.json)
  /\ (outcome = "ok" /\ nOffline = 0) => Cardinality(StateEntries) = 1

C20_Witness ==
  /\ outcome = "ok"
  /\ Len(srcVars) = 3
  /\ \E e \in StateEntries :
       /\ "ups_name" \in DOMAIN e.Payload.json
       /\ e.Payload.json.variables[K_ups_load] = <<"8">>

(***************************************************************************)
(* metrics.Compute and Metrics.AsTopicMap used on their own, as the tests  *)
(* of internal/metrics use them: a map of variables is given, Compute is   *)
(* applied to it, then AsTopicMap to its result.                           *)
(***************************************************************************)
\* a key the map does not hold
Absent == <<"(absent)">>

\* the map holding value under key, or nothing when the value is Absent
Opt(key, value) == IF value = Absent THEN <<>> ELSE (key :> value)

StatusValues ==
  {<<>>,
   <<" "," ">>,
   <<"O","B"," ","L","B">>,
   <<"O","L">>,
   <<"O","B">>,
   <<"L","B">>,
   <<"H","B">>,
   <<"R","B">>,
   <<"C","H","R","G">>,
   <<"D","I","S","C","H","R","G">>,
   <<"B","Y","P","A","S","S">>,
   <<"C","A","L">>,
   <<"O","F","F">>,
   <<"O","V","E","R">>,
   <<"T","R","I","M">>,
   <<"B","O","O","S","T">>,
   <<"F","S","D">>,
   <<"O","L","B">>,
   <<"X","O","B"," ","L","B","X">>,
   <<" ","O","B"," "," ","L","B"," ">>,
   <<"O","L"," ","C","H","R","G">>,
   <<"F","S","D"," ","Z","Z"," ","O","B">>,
   <<"L","B"," ","O","L">>,
   <<"o","b"," ","l","b">>,
   <<"O","L"," ","D","I","S","C","H","R","G">>}

LoadValues == {<<"8">>, <<"1","2",".","5">>, <<"0">>, <<"x">>, <<>>, <<"1","0","0">>, <<"-","3">>}
NominalPowerValues == {<<"9","0","0">>, <<"0">>, <<"1",".","5">>, <<"n","/","a">>, <<>>}
RuntimeValues ==
  {NatToStr(n) : n \in 0..MaxRuntime} \cup
  {<<"4","9","2","0">>, <<"-","1",".","5">>, <<"9","0",".","5">>, <<"a","b","c">>, <<>>, <<"1",".","5">>, <<"0",".","3">>}
VoltageValues == {<<"2","4","2",".","0">>, <<"0">>, <<"2","3","0">>, <<"2","1","8",".","5">>, <<"-","5">>, <<"v">>, <<>>}
NominalVoltageValues == {<<"2","3","0">>, <<"0">>, <<"0",".","0">>, <<"1","2","0">>, <<"x">>, <<>>, <<"-","2","3","0">>}

\* scenario A of the end-to-end tests
ScenarioA ==
  (K_ups_load :> <<"8">>) @@ (K_ups_realpower_nominal :> <<"9","0","0">>) @@
  (K_battery_runtime :> <<"4","9","2","0">>) @@
  (K_input_voltage :> <<"2","4","2",".","0">>) @@
  (K_input_voltage_nominal :> <<"2","3","0">>) @@ (K_ups_status :> <<"O","L">>)

\* the maps given to Compute
MetricInputs ==
  {ScenarioA}
  \cup {Opt(K_ups_status, s) : s \in StatusValues \cup {Absent}}
  \cup {Opt(K_ups_load, l) @@ Opt(K_ups_realpower_nominal, n) :
          l \in LoadValues \cup {Absent}, n \in NominalPowerValues \cup {Absent}}
  \cup {Opt(K_battery_runtime, r) : r \in RuntimeValues \cup {Absent}}
  \cup {Opt(K_input_voltage, v) @@ Opt(K_input_voltage_nominal, n) :
          v \in VoltageValues \cup {Absent}, n \in NominalVoltageValues \cup {Absent}}

MetricsInit ==
  /\ pc = "compute"
  /\ varMap \in MetricInputs
  /\ metrics = ZeroMetrics
  /\ todo = {}
  /\ ctxDone = FALSE
  /\ tickPending = FALSE
  /\ tickerOn = FALSE
  /\ now = 0
  /\ backoff = 0
  /\ attempts = 0
  /\ cfg = [Retained |-> TRUE, Username |-> <<>>]
  /\ pubOpen = FALSE
  /\ lwt = <<>>
  /\ srcUp = FALSE
  /\ srcHasTarget = FALSE
  /\ srcVars = <<>>
  /\ live = {}
  /\ conn = Nil
  /\ stale = FALSE
  /\ sessions = {}
  /\ nConn = 0
  /\ closes = 0
  /\ closeErr = "none"
  /\ cycleKind = "none"
  /\ nCycles = 0
  /\ outcome = "none"
  /\ prevOutcome = "none"
  /\ pollErr = "none"
  /\ ops = <<>>
  /\ staleAtEntry = FALSE
  /\ sent = <<>>
  /\ pubCalls = 0
  /\ nFinalPolls = 0
  /\ nOffline = 0
  /\ offlineErr = FALSE
  /\ AuxIdle

\* the variables Compute and AsTopicMap leave alone
notMetrics ==
  <<ctxDone, tickVars, startVars, cfgVars, auxVars, sinkVars, srcUp, live, clientVars,
    cycleKind, nCycles, outcome, prevOutcome, varMap, pollVars, busVars, countVars>>

\* m := metrics.Compute(varMap)
ComputeMetrics ==
  /\ pc = "compute"
  /\ metrics' = Compute(varMap)
  /\ pc' = "computed"
  /\ UNCHANGED <<todo, notMetrics>>

\* the range over m.AsTopicMap() begins: its keys are to be visited
RangeMetrics ==
  /\ pc = "computed"
  /\ todo' = DOMAIN AsTopicMap(metrics)
  /\ pc' = "ranged"
  /\ UNCHANGED <<metrics, notMetrics>>

MetricsNext ==
  \/ ComputeMetrics
  \/ RangeMetrics

MetricsSpec == MetricsInit /\ [][MetricsNext]_vars

(***************************************************************************)
(* C21                                                                     *)
(***************************************************************************)
\* the JSON tags of the Metrics struct, spelled out
C21_CanonicalNames ==
  (("load_watts" :> <<"l","o","a","d","_","w","a","t","t","s">>) @@
  ("battery_runtime_mins" :> <<"b","a","t","t","e","r","y","_","r","u","n","t","i","m","e","_","m","i","n","s">>) @@
  ("battery_runtime_hours" :> <<"b","a","t","t","e","r","y","_","r","u","n","t","i","m","e","_","h","o","u","r","s">>) @@
  ("on_battery" :> <<"o","n","_","b","a","t","t","e","r","y">>) @@
  ("low_battery" :> <<"l","o","w","_","b","a","t","t","e","r","y">>) @@
  ("status_display" :> <<"s","t","a","t","u","s","_","d","i","s","p","l","a","y">>) @@
  ("input_voltage_deviation_pct" :> <<"i","n","p","u","t","_","v","o","l","t","a","g","e","_","d","e","v","i","a","t","i","o","n","_","p","c","t">>))

\* C21: for every derived-metrics record AsTopicMap has exactly 7 entries,
\* their keys are the fixed canonical metric names, and that key set is the
\* set of JSON field names of the computed record of the state message, one
\* name per metric, one-to-one.
C21_SevenCanonicalNames ==
  pc = "ranged" =>
    LET computed == StateMessage(varMap, metrics, now).json.computed
    IN /\ Cardinality(todo) = 7
       /\ todo = {C21_CanonicalNames[f] : f \in DOMAIN C21_CanonicalNames}
       /\ DOMAIN computed = DOMAIN C21_CanonicalNames
       /\ todo = {C21_CanonicalNames[f] : f \in DOMAIN computed}
       /\ \A f, g \in DOMAIN computed :
            C21_CanonicalNames[f] = C21_CanonicalNames[g] => f = g

C21_Witness ==
  /\ pc = "ranged"
  /\ varMap = ScenarioA
  /\ metrics.load_watts = 7200
  /\ Cardinality(todo) = 7

(***************************************************************************)
(* C22                                                                     *)
(***************************************************************************)
\* the values of the inputs that are not numbers
C22_NotNumbers == {<<>>, <<"x">>, <<"a","b","c">>, <<"n","/","a">>, <<"v">>}

\* the variable is absent, empty or not parseable as a number
C22_Unusable(key) == key \notin DOMAIN varMap \/ varMap[key] \in C22_NotNumbers

\* C22: Compute is total, it returns a record for every snapshot, and each
\* numeric metric is 0 whenever a variable it reads is absent, empty or not a
\* number; load_watts is 0 when ups.load or ups.realpower.nominal is missing.
C22_ComputeTotalZeroOnBadInput ==
  /\ pc = "compute" => ENABLED ComputeMetrics
  /\ pc # "compute" =>
       /\ DOMAIN metrics = DOMAIN ZeroMetrics
       /\ metrics.load_watts \in Int
       /\ metrics.battery_runtime_mins \in Int
       /\ metrics.battery_runtime_hours \in Int
       /\ metrics.input_voltage_deviation_pct \in Int
       /\ metrics.on_battery \in BOOLEAN
       /\ metrics.low_battery \in BOOLEAN
       /\ C22_Unusable(K_ups_load) \/ C22_Unusable(K_ups_realpower_nominal)
            => metrics.load_watts = 0
       /\ C22_Unusable(K_battery_runtime)
            => metrics.battery_runtime_mins = 0 /\ metrics.battery_runtime_hours = 0
       /\ C22_Unusable(K_input_voltage) \/ C22_Unusable(K_input_voltage_nominal)
            => metrics.input_voltage_deviation_pct = 0

C22_Witness ==
  /\ pc = "computed"
  /\ K_ups_load \in DOMAIN varMap
  /\ varMap[K_ups_load] = <<"8">>
  /\ K_ups_realpower_nominal \notin DOMAIN varMap
  /\ metrics.load_watts = 0

(***************************************************************************)
(* C23                                                                     *)
(***************************************************************************)
C23_ZeroNominals == {<<"0">>, <<"0",".","0">>}
C23_NonZeroNominals == {<<"2","3","0">>, <<"1","2","0">>, <<"-","2","3","0">>}

\* C23: input_voltage_deviation_pct is 0 whenever the nominal voltage is zero,
\* for every voltage; a measured voltage of zero with a non-zero nominal is
\* not guarded and gives -100.
C23_ZeroNominalGuardOnly ==
  pc # "compute" =>
    /\ K_input_voltage_nominal \in DOMAIN varMap
       /\ varMap[K_input_voltage_nominal] \in C23_ZeroNominals
         => metrics.input_voltage_deviation_pct = 0
    /\ K_input_voltage \in DOMAIN varMap
       /\ varMap[K_input_voltage] = <<"0">>
       /\ K_input_voltage_nominal \in DOMAIN varMap
       /\ varMap[K_input_voltage_nominal] \in C23_NonZeroNominals
         => /\ metrics.input_voltage_deviation_pct = -10000
            /\ AsTopicMap(metrics)[N_input_voltage_deviation_pct] = <<"-","1","0","0">>

C23_Witness ==
  /\ pc = "computed"
  /\ K_input_voltage \in DOMAIN varMap
  /\ varMap[K_input_voltage] = <<"0">>
  /\ K_input_voltage_nominal \in DOMAIN varMap
  /\ varMap[K_input_voltage_nominal] = <<"2","3","0">>
  /\ metrics.input_voltage_deviation_pct = -10000

C23_WitnessZeroNominal ==
  /\ pc = "computed"
  /\ K_input_voltage \in DOMAIN varMap
  /\ varMap[K_input_voltage] = <<"2","4","2",".","0">>
  /\ K_input_voltage_nominal \in DOMAIN varMap
  /\ varMap[K_input_voltage_nominal] = <<"0">>
  /\ metrics.input_voltage_deviation_pct = 0

(***************************************************************************)
(* C24                                                                     *)
(***************************************************************************)
\* word stands in s between whitespace or the ends of s
C24_HasWord(s, word) ==
  \E i \in 1..Len(s) :
    LET j == i + Len(word) - 1
    IN /\ j <= Len(s)
       /\ SubSeq(s, i, j) = word
       /\ i = 1 \/ s[i - 1] = " "
       /\ j = Len(s) \/ s[j + 1] = " "

\* C24: on_battery holds exactly when the whitespace-separated tokens of
\* ups.status contain the exact token OB, low_battery exactly when they
\* contain the exact token LB, independently of each other; an absent or
\* empty status gives both false and a token merely containing OB or LB does
\* not count.
C24_ExactStatusTokens ==
  pc # "compute" =>
    LET status == IF K_ups_status \in DOMAIN varMap THEN varMap[K_ups_status] ELSE <<>>
    IN /\ metrics.on_battery = C24_HasWord(status, <<"O","B">>)
       /\ metrics.low_battery = C24_HasWord(status, <<"L","B">>)
       /\ status = <<>> => ~metrics.on_battery /\ ~metrics.low_battery
       /\ status = <<"O","B"," ","L","B">> => metrics.on_battery /\ metrics.low_battery
       /\ status \in {<<"O","L","B">>, <<"X","O","B"," ","L","B","X">>}
            => ~metrics.on_battery /\ ~metrics.low_battery
       /\ status = <<"O","B">> => metrics.on_battery /\ ~metrics.low_battery
       /\ status = <<"L","B">> => ~metrics.on_battery /\ metrics.low_battery

C24_Witness ==
  /\ pc = "computed"
  /\ K_ups_status \in DOMAIN varMap
  /\ varMap[K_ups_status] = <<"O","B"," ","L","B">>
  /\ metrics.on_battery
  /\ metrics.low_battery

C24_WitnessSubstring ==
  /\ pc = "computed"
  /\ K_ups_status \in DOMAIN varMap
  /\ varMap[K_ups_status] = <<"O","L","B">>
  /\ ~metrics.low_battery

(***************************************************************************)
(* C25                                                                     *)
(***************************************************************************)
\* the display expected for each status of StatusValues
C25_Expected ==
  (<<>> :> <<>>) @@
  (<<" "," ">> :> <<>>) @@
  (<<"O","B"," ","L","B">> :> <<"O","n"," ","B","a","t","t","e","r","y",","," ","L","o","w"," ","B","a","t","t","e","r","y">>) @@
  (<<"O","L">> :> <<"O","n","l","i","n","e">>) @@
  (<<"O","B">> :> <<"O","n"," ","B","a","t","t","e","r","y">>) @@
  (<<"L","B">> :> <<"L","o","w"," ","B","a","t","t","e","r","y">>) @@
  (<<"H","B">> :> <<"H","i","g","h"," ","B","a","t","t","e","r","y">>) @@
  (<<"R","B">> :> <<"R","e","p","l","a","c","e"," ","B","a","t","t","e","r","y">>) @@
  (<<"C","H","R","G">> :> <<"C","h","a","r","g","i","n","g">>) @@
  (<<"D","I","S","C","H","R","G">> :> <<"D","i","s","c","h","a","r","g","i","n","g">>) @@
  (<<"B","Y","P","A","S","S">> :> <<"B","y","p","a","s","s">>) @@
  (<<"C","A","L">> :> <<"C","a","l","i","b","r","a","t","i","n","g">>) @@
  (<<"O","F","F">> :> <<"O","f","f","l","i","n","e">>) @@
  (<<"O","V","E","R">> :> <<"O","v","e","r","l","o","a","d","e","d">>) @@
  (<<"T","R","I","M">> :> <<"T","r","i","m","m","i","n","g">>) @@
  (<<"B","O","O","S","T">> :> <<"B","o","o","s","t","i","n","g">>) @@
  (<<"F","S","D">> :> <<"F","o","r","c","e","d"," ","S","h","u","t","d","o","w","n">>) @@
  (<<"O","L","B">> :> <<"O","L","B">>) @@
  (<<"X","O","B"," ","L","B","X">> :> <<"X","O","B",","," ","L","B","X">>) @@
  (<<" ","O","B"," "," ","L","B"," ">> :> <<"O","n"," ","B","a","t","t","e","r","y",","," ","L","o","w"," ","B","a","t","t","e","r","y">>) @@
  (<<"O","L"," ","C","H","R","G">> :> <<"O","n","l","i","n","e",","," ","C","h","a","r","g","i","n","g">>) @@
  (<<"F","S","D"," ","Z","Z"," ","O","B">> :> <<"F","o","r","c","e","d"," ","S","h","u","t","d","o","w","n",","," ","Z","Z",","," ","O","n"," ","B","a","t","t","e","r","y">>) @@
  (<<"L","B"," ","O","L">> :> <<"L","o","w"," ","B","a","t","t","e","r","y",","," ","O","n","l","i","n","e">>) @@
  (<<"o","b"," ","l","b">> :> <<"o","b",","," ","l","b">>) @@
  (<<"O","L"," ","D","I","S","C","H","R","G">> :> <<"O","n","l","i","n","e",","," ","D","i","s","c","h","a","r","g","i","n","g">>)

\* the number of whitespace-separated tokens of s
C25_NumTokens(s) ==
  Cardinality({i \in 1..Len(s) : s[i] # " " /\ (i = 1 \/ s[i - 1] = " ")})

\* the number of ", " separators in s
C25_NumSeparators(s) ==
  Cardinality({i \in 1..(Len(s) - 1) : s[i] = "," /\ s[i + 1] = " "})

\* C25: status_display is the decode of the whitespace tokens of ups.status in
\* their order, each of the 14 known tokens replaced by its label, every
\* unknown token passed through, joined with ", "; an empty or absent status
\* gives the empty string; there are as many decoded items as tokens.
C25_StatusDisplayDecode ==
  pc # "compute" =>
    LET status == IF K_ups_status \in DOMAIN varMap THEN varMap[K_ups_status] ELSE <<>>
    IN /\ status \in DOMAIN C25_Expected
       /\ metrics.status_display = C25_Expected[status]
       /\ status = <<>> => metrics.status_display = <<>>
       /\ C25_NumTokens(status) > 0 =>
            C25_NumSeparators(metrics.status_display) + 1 = C25_NumTokens(status)
       /\ C25_NumTokens(status) = 0 => metrics.status_display = <<>>

C25_Witness ==
  /\ pc = "computed"
  /\ K_ups_status \in DOMAIN varMap
  /\ varMap[K_ups_status] = <<"F","S","D"," ","Z","Z"," ","O","B">>
  /\ metrics.status_display =
       <<"F","o","r","c","e","d"," ","S","h","u","t","d","o","w","n",",", " ",
         "Z","Z",",", " ","O","n"," ","B","a","t","t","e","r","y">>

(***************************************************************************)
(* C26                                                                     *)
(***************************************************************************)
\* the battery.runtime values of the inputs that are numbers
C26_ValidRuntimes ==
  RuntimeValues \ {<<>>, <<"a","b","c">>}

\* C26: when battery.runtime is present and a valid number,
\* battery_runtime_hours is battery_runtime_mins / 60 within the tolerance of
\* the two roundings to two decimals (half a hundredth each): in hundredths,
\* |60 * hours - mins| <= 30.
C26_HoursAreMinsOver60 ==
  pc # "compute"
  /\ K_battery_runtime \in DOMAIN varMap
  /\ varMap[K_battery_runtime] \in C26_ValidRuntimes
    => Abs(60 * metrics.battery_runtime_hours - metrics.battery_runtime_mins) <= 30

C26_Witness ==
  /\ pc = "computed"
  /\ K_battery_runtime \in DOMAIN varMap
  /\ varMap[K_battery_runtime] = <<"4","9","2","0">>
  /\ metrics.battery_runtime_mins = 8200
  /\ metrics.battery_runtime_hours = 137

(***************************************************************************)
(* C27                                                                     *)
(***************************************************************************)
\* the source has been contacted: an attempt failed or a session was opened
C27_SourceContacted == attempts > 0 \/ nConn > 0

\* the sink session is open and carries the will on the state topic
C27_SinkSessionWithWill ==
  /\ pubOpen
  /\ Len(lwt) = 1
  /\ lwt[1].Topic = ExpectedStateTopic
  /\ lwt[1].Retained
  /\ OfflineShape(lwt[1].Payload)

C27_Inv ==
  /\ pc = "start" => ~C27_SourceContacted /\ ~pubOpen /\ lwt = <<>>
  /\ pc = "fatal" => ~C27_SourceContacted /\ ~pubOpen /\ lwt = <<>> /\ live = {}
  /\ C27_SourceContacted => Len(lwt) = 1 /\ lwt[1].Topic = ExpectedStateTopic

C27_Step ==
  /\ (attempts' # attempts \/ nConn' # nConn) => C27_SinkSessionWithWill
  /\ (pc = "start" /\ pc' # pc) =>
       (pc' = "fatal" \/ (pc' = "connect_nut" /\ C27_SinkSessionWithWill'))
  /\ pc = "fatal" => pc' = "fatal"

\* C27: the sink session, with its last will registered, is established
\* before the first connection attempt to the source; when the sink
\* connection fails at startup the process ends and never contacts the source.
C27_SinkBeforeSource == []C27_Inv /\ [][C27_Step]_vars

C27_Witness ==
  /\ pc = "backoff"
  /\ attempts = 1
  /\ nConn = 0
  /\ C27_SinkSessionWithWill

C27_WitnessFatal == pc = "fatal" /\ ~C27_SourceContacted

(***************************************************************************)
(* C28                                                                     *)
(***************************************************************************)
\* a doPoll is between its entry and its return
C28_InFlight == pc \in {"poll", "poll_list", "poll_get", "pub_vars", "pub_metrics", "pub_state"}

C28_Inv ==
  /\ C28_InFlight <=> outcome = "running"
  /\ C28_InFlight => cycleKind \in {"tick", "final"}
  /\ ~C28_InFlight /\ cycleKind = "tick" => pc = "loop"

C28_Step ==
  \* a tick or the cancellation is handled, a cycle begins: none is in flight
  /\ (tickPending /\ ~tickPending') \/ (tickerOn /\ ~tickerOn')
       \/ (outcome' = "running" /\ outcome # "running")
       \/ cycleKind' # cycleKind
       => /\ pc = "loop"
          /\ ~C28_InFlight
          /\ pc' = "poll"
          /\ sent' = <<>>
  \* while a cycle is in flight the bus only receives this cycle's messages,
  \* one at a time, whatever ticks or signals arrive meanwhile
  /\ C28_InFlight =>
       /\ cycleKind' = cycleKind
       /\ \/ sent' = sent
          \/ /\ Delivered' = Delivered + 1
             /\ \A t \in DOMAIN sent :
                  /\ t \in DOMAIN sent'
                  /\ SubSeq(sent'[t], 1, Len(sent[t])) = sent[t]
             /\ pc \in PublishPhases
       /\ pubCalls' \in {pubCalls, pubCalls + 1}
  \* nothing is published under a cycle that has returned, but the offline
  \* message after the final one
  /\ (~C28_InFlight /\ sent' # sent /\ sent' # <<>>) => pc = "offline"

\* C28: at most one cycle is in flight at any time: a cycle's fetch and all
\* its publishes complete or abort before the next tick or the cancellation
\* is handled, so the messages of two cycles are never interleaved.
C28_OneCycleInFlight == []C28_Inv /\ [][C28_Step]_vars

C28_Witness ==
  /\ pc = "pub_metrics"
  /\ cycleKind = "tick"
  /\ tickPending
  /\ ctxDone
  /\ Delivered >= 1

(***************************************************************************)
(* internal/config: Load.  Of the Config struct the fields with a typed    *)
(* override (Port, PollInterval, Retained, QOS) and one string field       *)
(* (Host) are kept; the other string fields are overridden as Host is.     *)
(* A Duration is held in milliseconds.                                     *)
(***************************************************************************)
E_NUT_HOST ==
  <<"U","P","S","_","M","Q","T","T","_","N","U","T","_","H","O","S","T">>
E_NUT_PORT ==
  <<"U","P","S","_","M","Q","T","T","_","N","U","T","_","P","O","R","T">>
E_NUT_POLL_INTERVAL ==
  <<"U","P","S","_","M","Q","T","T","_","N","U","T","_","P","O","L","L","_","I","N","T","E","R","V","A","L">>
E_MQTT_RETAINED ==
  <<"U","P","S","_","M","Q","T","T","_","M","Q","T","T","_","R","E","T","A","I","N","E","D">>
E_MQTT_QOS ==
  <<"U","P","S","_","M","Q","T","T","_","M","Q","T","T","_","Q","O","S">>

\* os.Getenv: the empty string for a name that is not set
Getenv(name) == IF name \in DOMAIN env THEN env[name] ELSE <<>>

\* strconv.Atoi on values within the int range: an optional sign, then digits
Atoi(s) ==
  LET signed == s # <<>> /\ s[1] \in {"+", "-"}
      digits == IF signed THEN Tail(s) ELSE s
      ok     == digits # <<>> /\ \A i \in 1..Len(digits) : IsDigit(digits[i])
  IN [ok  |-> ok,
      val |-> IF ~ok THEN 0
              ELSE IF s[1] = "-" THEN -DigitsToNat(digits) ELSE DigitsToNat(digits)]

\* strconv.ParseUint(s, 10, 8): digits only, at most 255
ParseUint8(s) ==
  LET digits == s # <<>> /\ \A i \in 1..Len(s) : IsDigit(s[i])
      ok     == digits /\ DigitsToNat(s) <= 255
  IN [ok |-> ok, val |-> IF ok THEN DigitsToNat(s) ELSE 0]

\* the units of time.ParseDuration the model knows, in milliseconds
unitMap ==
  (<<"m","s">> :> 1) @@ (<<"s">> :> 1000) @@ (<<"m">> :> 60000) @@ (<<"h">> :> 3600000)

\* the length of the longest prefix of s made of digits (digit = TRUE) or of
\* characters that are neither digits nor points (digit = FALSE)
RECURSIVE RunLen(_, _)
RunLen(s, digit) ==
  IF s = <<>> THEN 0
  ELSE IF digit /\ IsDigit(s[1]) THEN 1 + RunLen(Tail(s), digit)
  ELSE IF ~digit /\ ~IsDigit(s[1]) /\ s[1] # "." THEN 1 + RunLen(Tail(s), digit)
  ELSE 0

\* the loop of time.ParseDuration over ( digits unit )+, without fractions
RECURSIVE DurationTerms(_)
DurationTerms(s) ==
  IF s = <<>> THEN [ok |-> TRUE, val |-> 0]
  ELSE LET nd   == RunLen(s, TRUE)
           rest == SubSeq(s, nd + 1, Len(s))
           nu   == RunLen(rest, FALSE)
           unit == SubSeq(rest, 1, nu)
           more == DurationTerms(SubSeq(rest, nu + 1, Len(rest)))
       IN IF nd = 0 \/ nu = 0 \/ unit \notin DOMAIN unitMap \/ ~more.ok
            THEN [ok |-> FALSE, val |-> 0]
            ELSE [ok |-> TRUE,
                  val |-> DigitsToNat(SubSeq(s, 1, nd)) * unitMap[unit] + more.val]

\* time.ParseDuration: an optional sign, then "0" or a sequence of terms
ParseDuration(s) ==
  LET signed == s # <<>> /\ s[1] \in {"+", "-"}
      body   == IF signed THEN Tail(s) ELSE s
      terms  == DurationTerms(body)
  IN IF body = <<"0">> THEN [ok |-> TRUE, val |-> 0]
     ELSE IF body = <<>> \/ ~terms.ok THEN [ok |-> FALSE, val |-> 0]
     ELSE [ok |-> TRUE, val |-> IF s[1] = "-" THEN -terms.val ELSE terms.val]

\* defaults()
defaults ==
  [Host         |-> <<"l","o","c","a","l","h","o","s","t">>,
   Port         |-> 3493,
   PollInterval |-> 30000,
   Retained     |-> TRUE,
   QOS          |-> 1]

\* toml.DecodeFile into c: the keys the file holds replace the fields of c
DecodeFile(c, values) ==
  [f \in DOMAIN c |-> IF f \in DOMAIN values THEN values[f] ELSE c[f]]

\* applyEnvOverrides: each set UPS_MQTT_* variable is copied into its field
applyEnvOverrides(c) ==
  LET port == Atoi(Getenv(E_NUT_PORT))
      poll == ParseDuration(Getenv(E_NUT_POLL_INTERVAL))
      qos  == ParseUint8(Getenv(E_MQTT_QOS))
  IN [Host         |-> IF Getenv(E_NUT_HOST) # <<>> THEN Getenv(E_NUT_HOST) ELSE c.Host,
      Port         |-> IF Getenv(E_NUT_PORT) # <<>> /\ port.ok THEN port.val ELSE c.Port,
      PollInterval |-> IF Getenv(E_NUT_POLL_INTERVAL) # <<>> /\ poll.ok
                         THEN poll.val ELSE c.PollInterval,
      Retained     |-> IF Getenv(E_MQTT_RETAINED) # <<>>
                         THEN Getenv(E_MQTT_RETAINED) \in {<<"t","r","u","e">>, <<"1">>}
                         ELSE c.Retained,
      QOS          |-> IF Getenv(E_MQTT_QOS) # <<>> /\ qos.ok THEN qos.val ELSE c.QOS]

\* the values the environment may give to each variable; <<>> is "not set"
HostValues == {<<>>, <<"1","0",".","0",".","0",".","1">>}
PortValues ==
  {<<>>, <<"3","4","9","4">>, <<"n","o","t","-","a","-","n","u","m","b","e","r">>, <<"-","1">>, <<"+","7">>, <<"3",".","5">>}
PollIntervalValues ==
  {<<>>, <<"5","s">>, <<"b","a","n","a","n","a","s">>, <<"3","0">>, <<"1","m","3","0","s">>, <<"0">>, <<"5","x">>}
RetainedValues ==
  {<<>>, <<"t","r","u","e">>, <<"1">>, <<"f","a","l","s","e">>, <<"0">>, <<"b","a","n","a","n","a">>, <<"y","e","s">>}
QOSValues ==
  {<<>>, <<"2">>, <<"0">>, <<"n","o","t","-","a","-","n","u","m","b","e","r">>, <<"2","5","6">>, <<"-","1">>}

Environments ==
  {(E_NUT_HOST :> h) @@ (E_NUT_PORT :> p) @@ (E_NUT_POLL_INTERVAL :> i) @@
   (E_MQTT_RETAINED :> r) @@ (E_MQTT_QOS :> q) :
     h \in HostValues, p \in PortValues, i \in PollIntervalValues,
     r \in RetainedValues, q \in QOSValues}

\* what Load finds at its path: no file, a malformed one, or a file with keys
Files ==
  {[kind |-> "none"],
   [kind |-> "malformed"],
   [kind |-> "toml", values |-> [Port |-> 3500, QOS |-> 0]],
   [kind |-> "toml", values |-> [Retained |-> FALSE, PollInterval |-> 10000]]}

\* the variables of main and of the client, at rest
MainIdle ==
  /\ ctxDone = FALSE
  /\ tickPending = FALSE
  /\ tickerOn = FALSE
  /\ now = 0
  /\ backoff = 0
  /\ attempts = 0
  /\ pubOpen = FALSE
  /\ lwt = <<>>
  /\ srcUp = FALSE
  /\ srcHasTarget = FALSE
  /\ srcVars = <<>>
  /\ live = {}
  /\ conn = Nil
  /\ stale = FALSE
  /\ sessions = {}
  /\ nConn = 0
  /\ closes = 0
  /\ closeErr = "none"
  /\ cycleKind = "none"
  /\ nCycles = 0
  /\ outcome = "none"
  /\ prevOutcome = "none"
  /\ varMap = <<>>
  /\ metrics = ZeroMetrics
  /\ todo = {}
  /\ pollErr = "none"
  /\ ops = <<>>
  /\ staleAtEntry = FALSE
  /\ sent = <<>>
  /\ pubCalls = 0
  /\ nFinalPolls = 0
  /\ nOffline = 0
  /\ offlineErr = FALSE

\* Load is entered: cfg := defaults()
LoadInit ==
  /\ pc = "load_file"
  /\ cfg = defaults
  /\ env \in Environments
  /\ file \in Files
  /\ loadErr = "none"
  /\ fake = <<>>
  /\ heap = <<>>
  /\ ret = <<>>
  /\ nCalls = 0
  /\ MainIdle

\* the variables Load leaves alone
notLoad ==
  <<ctxDone, tickVars, startVars, srcHasTarget, srcVars, sinkVars, srcUp, live,
    clientVars, cycleVars, pollVars, busVars, countVars, env, file, fakeVars>>

\* Load lines 64-78: the file, when there is one, is decoded into cfg; a
\* malformed file makes Load return (nil, err)
LoadFile ==
  /\ pc = "load_file"
  /\ IF file.kind = "malformed"
       THEN /\ pc' = "load_failed"
            /\ cfg' = Nil
            /\ loadErr' = "parse"
       ELSE /\ pc' = "load_env"
            /\ cfg' = IF file.kind = "toml" THEN DecodeFile(cfg, file.values) ELSE cfg
            /\ loadErr' = loadErr
  /\ UNCHANGED notLoad

\* Load lines 80-81: applyEnvOverrides(cfg); return cfg, nil
ApplyEnv ==
  /\ pc = "load_env"
  /\ cfg' = applyEnvOverrides(cfg)
  /\ loadErr' = "nil"
  /\ pc' = "loaded"
  /\ UNCHANGED notLoad

LoadNext ==
  \/ LoadFile
  \/ ApplyEnv

LoadSpec == LoadInit /\ [][LoadNext]_vars

(***************************************************************************)
(* C29                                                                     *)
(***************************************************************************)
\* the override values that are invalid for their field
C29_InvalidPorts == {<<"n","o","t","-","a","-","n","u","m","b","e","r">>, <<"3",".","5">>}
C29_InvalidPollIntervals == {<<"b","a","n","a","n","a","s">>, <<"3","0">>, <<"5","x">>}
C29_InvalidRetained == {<<"b","a","n","a","n","a">>, <<"y","e","s">>}
C29_InvalidQOS == {<<"n","o","t","-","a","-","n","u","m","b","e","r">>, <<"2","5","6">>, <<"-","1">>}

\* the overrides that are parsed are ignored when invalid
C29_ParsedOverridesKept ==
  /\ env[E_NUT_PORT] \in C29_InvalidPorts => cfg'.Port = cfg.Port
  /\ env[E_NUT_POLL_INTERVAL] \in C29_InvalidPollIntervals
       => cfg'.PollInterval = cfg.PollInterval
  /\ env[E_MQTT_QOS] \in C29_InvalidQOS => cfg'.QOS = cfg.QOS

\* for Port, PollInterval and QOS an invalid override leaves the field as it
\* was and Load returns no error
C29_InvalidNumbersIgnored ==
  [][pc = "load_env" /\ pc' = "loaded" => C29_ParsedOverridesKept /\ loadErr' = "nil"]_vars

\* C29: for every UPS_MQTT_* override whose value is invalid for its field,
\* Load ignores the override, leaves the field at the value it had before the
\* override (the default or the file's), and returns no error.
C29_InvalidOverridesIgnored ==
  [][pc = "load_env" /\ pc' = "loaded" =>
       /\ loadErr' = "nil"
       /\ C29_ParsedOverridesKept
       /\ env[E_MQTT_RETAINED] \in C29_InvalidRetained => cfg'.Retained = cfg.Retained]_vars

\* an invalid port was ignored, the file's value is kept
C29_Witness ==
  /\ pc = "loaded"
  /\ env[E_NUT_PORT] = <<"n","o","t","-","a","-","n","u","m","b","e","r">>
  /\ file.kind = "toml"
  /\ cfg.Port = 3500
  /\ loadErr = "nil"

\* retained was true by default and an unrecognised override made it false
C29_RetainedOverridden ==
  /\ pc = "loaded"
  /\ env[E_MQTT_RETAINED] = <<"b","a","n","a","n","a">>
  /\ file.kind = "none"
  /\ cfg.Retained = FALSE

(***************************************************************************)
(* internal/nut: FakePoller.  A []Variable is a reference to a backing     *)
(* array; heap[i] is the content of array i and Nil is the nil slice.      *)
(***************************************************************************)
\* Poll calls the test makes
MaxPolls == 4

\* the arrays the test seeds the fake with: heap[1] for Variables, the others
\* for the elements of Sequence
SeedHeap ==
  <<<<[Name |-> <<"a">>, Value |-> <<"1">>]>>,
    <<[Name |-> K_ups_status, Value |-> <<"O","L">>]>>,
    <<[Name |-> K_ups_status, Value |-> <<"O","B"," ","D","I","S","C","H","R","G">>]>>,
    <<[Name |-> K_ups_status, Value |-> <<"O","L"," ","C","H","R","G">>]>>>>

\* the fakes the tests construct
Fakes ==
  {[Variables |-> v, Sequence |-> q, Err |-> e, CallCount |-> 0] :
     v \in {Nil, 1}, q \in {<<>>, <<3>>, <<2, 3>>, <<2, 3, 4>>}, e \in BOOLEAN}

FakeInit ==
  /\ pc = "fake"
  /\ fake \in Fakes
  /\ heap = SeedHeap
  /\ ret = [vars |-> Nil, err |-> FALSE]
  /\ nCalls = 0
  /\ cfg = defaults
  /\ env = <<>>
  /\ file = [kind |-> "none"]
  /\ loadErr = "nil"
  /\ MainIdle

\* the variables the FakePoller leaves alone
notFake ==
  <<pc, ctxDone, tickVars, startVars, cfgVars, loadVars, sinkVars, srcUp, live,
    clientVars, cycleVars, pollVars, busVars, countVars>>

\* FakePoller.Poll stepping through Sequence again from its start when it is
\* exhausted
FakePoll_WrapsAround ==
  /\ nCalls < MaxPolls
  /\ nCalls' = nCalls + 1
  /\ fake' = [fake EXCEPT !.CallCount = @ + 1]
  /\ IF fake.Err
       THEN /\ ret' = [vars |-> Nil, err |-> TRUE]
            /\ heap' = heap
       ELSE LET idx == fake.CallCount % Len(fake.Sequence)
                src == IF Len(fake.Sequence) > 0
                         THEN fake.Sequence[idx + 1] ELSE fake.Variables
                out == IF src = Nil THEN <<>> ELSE heap[src]
            IN /\ heap' = Append(heap, out)
               /\ ret' = [vars |-> Len(heap) + 1, err |-> FALSE]
  /\ UNCHANGED notFake

\* FakePoller.Poll: the count is raised first; with Err set (nil, Err) is
\* returned; otherwise a new array holding a copy of the source's elements
FakePoll ==
  /\ nCalls < MaxPolls
  /\ nCalls' = nCalls + 1
  /\ fake' = [fake EXCEPT !.CallCount = @ + 1]
  /\ IF fake.Err
       THEN /\ ret' = [vars |-> Nil, err |-> TRUE]
            /\ heap' = heap
       ELSE LET idx == IF fake.CallCount >= Len(fake.Sequence)
                         THEN Len(fake.Sequence) - 1 ELSE fake.CallCount
                src == IF Len(fake.Sequence) > 0
                         THEN fake.Sequence[idx + 1] ELSE fake.Variables
                out == IF src = Nil THEN <<>> ELSE heap[src]
            IN /\ heap' = Append(heap, out)
               /\ ret' = [vars |-> Len(heap) + 1, err |-> FALSE]
  /\ UNCHANGED notFake

\* the test sets or clears fp.Err between two calls
SetErr ==
  /\ nCalls < MaxPolls
  /\ fake' = [fake EXCEPT !.Err = ~@]
  /\ UNCHANGED <<heap, ret, nCalls, notFake>>

\* the test writes into the slice the last Poll returned
MutateReturned ==
  /\ ret.vars # Nil
  /\ Len(heap[ret.vars]) > 0
  /\ heap' = [heap EXCEPT ![ret.vars][1].Value = <<"m","u","t","a","t","e","d">>]
  /\ UNCHANGED <<fake, ret, nCalls, notFake>>

FakeNext ==
  \/ FakePoll
  \/ SetErr
  \/ MutateReturned

FakeSpec == FakeInit /\ [][FakeNext]_vars

(***************************************************************************)
(* C30                                                                     *)
(***************************************************************************)
\* the arrays the fake holds
C30_Seeded == 1..Len(SeedHeap)

\* the array the n-th call is to copy (Nil: none, the result is empty)
C30_Source(n) ==
  IF fake.Sequence = <<>> THEN fake.Variables
  ELSE IF n <= Len(fake.Sequence) THEN fake.Sequence[n]
  ELSE fake.Sequence[Len(fake.Sequence)]

C30_Inv ==
  /\ fake.CallCount = nCalls
  /\ \A i \in C30_Seeded : heap[i] = SeedHeap[i]

C30_Step ==
  nCalls' = nCalls + 1 =>
    /\ fake'.CallCount = fake.CallCount + 1
    /\ fake.Err => ret'.err /\ ret'.vars = Nil
    /\ ~fake.Err =>
         /\ ~ret'.err
         /\ ret'.vars \notin DOMAIN heap
         /\ ret'.vars \in DOMAIN heap'
         /\ heap'[ret'.vars] =
              IF C30_Source(nCalls + 1) = Nil THEN <<>>
              ELSE SeedHeap[C30_Source(nCalls + 1)]

\* C30: FakePoller in sequence mode: CallCount is the number of Poll calls
\* made, failed ones included; the n-th call, when it succeeds, returns a copy
\* of Sequence[n-1] for n <= len(Sequence) and of the last element for every
\* later call; with an empty Sequence every successful call returns a copy of
\* Variables.
C30_FakePollerSequence == []C30_Inv /\ [][C30_Step]_vars

\* the fourth call, after a failed one, got the last of three elements, and
\* the test wrote into what it got
C30_Witness ==
  /\ nCalls = 4
  /\ fake.CallCount = 4
  /\ fake.Sequence = <<2, 3, 4>>
  /\ ~ret.err
  /\ Len(heap) < 4 + 4
  /\ heap[ret.vars][1].Value = <<"m","u","t","a","t","e","d">>
  /\ heap[4][1].Value = <<"O","L"," ","C","H","R","G">>

(***************************************************************************)
(* C31                                                                     *)
(***************************************************************************)
\* the source operations one Poll can have made, in order
C31_OpsOfOnePoll ==
  {<<>>, <<"connect">>, <<"connect", "list">>, <<"connect", "list", "get">>,
   <<"list">>, <<"list", "get">>}

C31_Inv ==
  /\ ops \in C31_OpsOfOnePoll
  /\ pc \in {"poll", "poll_list", "poll_get"} => outcome = "running"
  /\ pollErr # "none" /\ cycleKind # "none" => outcome # "ok"

C31_Step ==
  \* Poll is entered only as a doPoll begins, from the loop
  /\ (pc' = "poll" /\ pc # "poll") =>
       /\ pc = "loop"
       /\ outcome # "running"
       /\ outcome' = "running"
       /\ nCycles' = nCycles + 1
  \* and entered it is, once: the poll steps follow one another
  /\ (pc' = "poll_list" /\ pc # "poll_list") => pc = "poll"
  /\ (pc' = "poll_get" /\ pc # "poll_get") => pc = "poll_list"
  /\ (pc = "poll" /\ pc' # "poll") => ops' \in {<<>>, <<"connect">>}
  \* a failed Poll ends the doPoll at once
  /\ (pc \in {"poll", "poll_list", "poll_get"} /\ pc' # pc /\ pollErr' # "none") =>
       /\ outcome' = "poll_err"
       /\ pc' \in {"loop", "offline"}
  /\ nCycles' = nCycles \/ (pc = "loop" /\ pc' = "poll")

\* C31: there is no retry inside a cycle or inside a fetch: each cycle calls
\* Poll exactly once whatever the outcome, and each Poll makes at most one
\* connect attempt, one listing and one retrieval.
C31_NoRetryInCycle == []C31_Inv /\ [][C31_Step]_vars

\* a Poll failed at the listing, upsd is back, and doPoll has returned
C31_Witness ==
  /\ pc = "loop"
  /\ outcome = "poll_err"
  /\ pollErr = "list"
  /\ ops = <<"list">>
  /\ srcUp
  /\ nCycles = 1

(***************************************************************************)
(* C32                                                                     *)
(***************************************************************************)
C32_Inv ==
  /\ closes <= 1
  /\ pc = "close_nut" => nOffline = 1 /\ closes = 0 /\ pubOpen
  /\ (pc = "close_pub" /\ cycleKind = "final") =>
       nOffline = 1 /\ closes = 1 /\ conn = Nil /\ pubOpen
  /\ (pc = "done" /\ cycleKind = "final") =>
       nOffline = 1 /\ closes = 1 /\ conn = Nil /\ ~pubOpen
  /\ closes > 0 => pc \in {"close_pub", "done"}

C32_Step ==
  \* the connector is closed after the offline publish was attempted
  /\ closes' # closes => pc = "close_nut" /\ nOffline = 1 /\ closes' = 1
  \* the publisher is closed last
  /\ (pubOpen /\ ~pubOpen') => pc = "close_pub" /\ pc' = "done"
  \* no fetch on a closed connector
  /\ closes > 0 => UNCHANGED <<ops, pollErr, nFinalPolls, nConn, nCycles>>
  \* no publish on a closed publisher
  /\ pc = "done" => UNCHANGED <<sent, pubCalls, nOffline, pubOpen, closes>>

\* C32: on the shutdown path the source connector and the sink publisher are
\* each closed exactly once, only after the offline announcement was
\* attempted; no fetch and no publish is issued on a closed session.
C32_ClosedOnceAfterOffline == []C32_Inv /\ [][C32_Step]_vars

C32_Witness ==
  /\ pc = "done"
  /\ cycleKind = "final"
  /\ nOffline = 1
  /\ offlineErr
  /\ closes = 1
  /\ ~pubOpen

(***************************************************************************)
(* C33                                                                     *)
(***************************************************************************)
\* the cycles started by a tick
C33_TickCycles == IF cycleKind = "final" THEN nCycles - 1 ELSE nCycles

\* the ticks fired: the clock advances by one at each
C33_TicksFired == now

C33_Inv ==
  /\ tickPending \in BOOLEAN
  /\ C33_TickCycles + (IF tickPending THEN 1 ELSE 0) <= C33_TicksFired
  /\ nCycles <= C33_TicksFired + 1

C33_Step ==
  \* a tick leaves one tick pending, whether or not one was
  /\ now' # now => tickPending' /\ nCycles' = nCycles /\ pc' = pc
  \* a cycle started by a tick takes the pending one
  /\ (nCycles' # nCycles /\ cycleKind' = "tick") => tickPending /\ ~tickPending'

\* C33: ticks are coalesced, not queued: at most one tick is pending, further
\* ticks are dropped, and the number of cycles run never exceeds the number
\* of ticks fired plus the one final cycle.
C33_TicksCoalesced == []C33_Inv /\ [][C33_Step]_vars

\* two ticks fired, one cycle ran, none is pending: one tick was dropped
C33_Witness ==
  /\ pc = "loop"
  /\ now = 2
  /\ nCycles = 1
  /\ cycleKind = "tick"
  /\ ~tickPending

(***************************************************************************)
(* C35                                                                     *)
(***************************************************************************)
\* main returned from connectNUT with its error: no doPoll was ever called
C35_StartupCancelled == cycleKind = "none" /\ pc \in {"close_pub", "done"}

C35_Inv ==
  C35_StartupCancelled =>
    /\ ctxDone
    /\ sent = <<>>
    /\ pubCalls = 0
    /\ nOffline = 0
    /\ nCycles = 0
    /\ conn = Nil
    /\ nConn = 0
    /\ sessions = {}
    /\ closes = 0
    /\ pc = "close_pub" => pubOpen
    /\ pc = "done" => ~pubOpen

C35_Step ==
  /\ (InConnectNUT /\ pc' \notin {"connect_nut", "backoff", "loop"}) =>
       /\ pc = "backoff"
       /\ ctxDone
       /\ pc' = "close_pub"
  /\ C35_StartupCancelled => C35_StartupCancelled' /\ UNCHANGED <<busVars, nOffline, closes>>

\* C35: when cancellation is observed during the startup connection routine
\* the process ends having published no message at all, neither a cycle's nor
\* the offline announcement; only the sink session is closed, and there is no
\* source connector to close.
C35_CancelledStartupIsSilent == []C35_Inv /\ [][C35_Step]_vars

C35_Witness ==
  /\ pc = "done"
  /\ cycleKind = "none"
  /\ ctxDone
  /\ ~pubOpen
  /\ Len(lwt) = 1

(***************************************************************************)
(* C39                                                                     *)
(***************************************************************************)
\* C39: the source connector holds at most one undisconnected session at any
\* time: whenever connect() installs a new session during a reconnect from
\* Stale, the session it replaces has been disconnected.
C39_OneUndisconnectedSession ==
  /\ Cardinality(sessions) <= 1
  /\ conn # Nil => sessions = {conn}

\* after a reconnect the client holds the second session and the first was
\* never disconnected
C39_LeakedSession ==
  /\ conn = 2
  /\ sessions = {1, 2}

(***************************************************************************)
(* C40                                                                     *)
(***************************************************************************)
C40_Inv ==
  /\ pc # "panic"
  /\ pc \in {"loop", "poll", "poll_list", "poll_get"} => conn # Nil /\ closes = 0
  /\ conn = Nil => (nConn = 0 \/ closes > 0)

C40_Step ==
  \* a connector reaches the loop only from a successful connect
  /\ (pc = "connect_nut" /\ pc' = "loop") => conn' # Nil /\ conn' \in live'
  \* a failed reconnect keeps the session reference
  /\ (pc = "poll" /\ pc' # pc /\ pollErr' = "connect") => conn' = conn /\ conn # Nil
  \* the reference is dropped by Close only, after the last Poll
  /\ (conn # Nil /\ conn' = Nil) => pc = "close_nut" /\ nFinalPolls = 1

\* C40: whenever Poll is called the client holds a session object, never nil:
\* the client reaches the loop only after a successful connect, a failed
\* reconnect keeps the previous session reference, and Close comes after the
\* last Poll; so Poll never dereferences a nil session.
C40_PollNeverOnNilSession == []C40_Inv /\ [][C40_Step]_vars

\* a reconnect failed and the client still holds the lost session
C40_Witness ==
  /\ pc = "loop"
  /\ pollErr = "connect"
  /\ stale
  /\ conn # Nil
  /\ conn \notin live

(***************************************************************************)
(* One doPoll from the point where Poll retrieves the variables, for any   *)
(* snapshot upsd may hold: names and values are whatever strings upsd      *)
(* sends.                                                                  *)
(***************************************************************************)
AnySnapshots ==
  {<<[Name |-> <<"u","p","s",".","s","t","a","t","u","s">>, Value |-> <<"O","L">>], [Name |-> <<"b","a","t","t","e","r","y",".","r","u","n","t","i","m","e">>, Value |-> <<"4","9","2","0">>]>>,
   <<[Name |-> <<"b","a","t","t","e","r","y",".","r","u","n","t","i","m","e">>, Value |-> <<"N","a","N">>]>>,
   <<[Name |-> <<"u","p","s",".","l","o","a","d">>, Value |-> <<"I","n","f">>], [Name |-> <<"u","p","s",".","r","e","a","l","p","o","w","e","r",".","n","o","m","i","n","a","l">>, Value |-> <<"9","0","0">>]>>,
   <<[Name |-> <<"i","n","p","u","t",".","v","o","l","t","a","g","e">>, Value |-> <<"2","3","0">>], [Name |-> <<"i","n","p","u","t",".","v","o","l","t","a","g","e",".","n","o","m","i","n","a","l">>, Value |-> <<"-","I","n","f">>]>>,
   <<[Name |-> <<"s","t","a","t","e">>, Value |-> <<"o","n">>]>>,
   <<[Name |-> <<"c","o","m","p","u","t","e","d",".","o","n","_","b","a","t","t","e","r","y">>, Value |-> <<"m","a","y","b","e">>]>>,
   <<[Name |-> <<"a",".","b">>, Value |-> <<"1">>], [Name |-> <<"a","/","b">>, Value |-> <<"2">>]>>,
   <<[Name |-> <<"u","p","s",".","l","o","a","d">>, Value |-> <<"1","e">>], [Name |-> <<"u","p","s",".","s","t","a","t","u","s">>, Value |-> <<>>]>>}

\* the first tick's doPoll has listed the UPS and is about to get its variables
PublishInit ==
  /\ pc = "poll_get"
  /\ ctxDone = FALSE
  /\ tickPending = FALSE
  /\ tickerOn = TRUE
  /\ now = 1
  /\ backoff = 0
  /\ attempts = 0
  /\ cfg \in Configs
  /\ pubOpen = TRUE
  /\ lwt = <<[Topic |-> StateTopic(Prefix, UPSName),
              Payload |-> FormatOffline(0), Retained |-> TRUE]>>
  /\ srcUp = TRUE
  /\ srcHasTarget = TRUE
  /\ srcVars \in AnySnapshots
  /\ live = {1}
  /\ conn = 1
  /\ stale = FALSE
  /\ sessions = {1}
  /\ nConn = 1
  /\ closes = 0
  /\ closeErr = "none"
  /\ cycleKind = "tick"
  /\ nCycles = 1
  /\ outcome = "running"
  /\ prevOutcome = "none"
  /\ varMap = <<>>
  /\ metrics = ZeroMetrics
  /\ todo = {}
  /\ pollErr = "none"
  /\ ops = <<"list">>
  /\ staleAtEntry = FALSE
  /\ sent = <<>>
  /\ pubCalls = 0
  /\ nFinalPolls = 0
  /\ nOffline = 0
  /\ offlineErr = FALSE
  /\ AuxIdle

PublishNext ==
  \/ PollGetVariables
  \/ PublishVariable
  \/ PublishMetric
  \/ publishState

PublishSpec == PublishInit /\ [][PublishNext]_vars

(***************************************************************************)
(* C36                                                                     *)
(***************************************************************************)
\* the doPoll has returned
C36_Returned == pc = "loop" /\ outcome # "running"

\* C36: PublishAll returns an error only when a Publish call returned one:
\* for every snapshot, whatever its value strings, if no Publish call fails
\* then PublishAll returns success and the combined-state message is
\* published.
C36_ErrorOnlyFromPublish ==
  (C36_Returned /\ pubCalls = Delivered) =>
    /\ outcome = "ok"
    /\ \E i \in 1..Len(OnStateTopic) : IsState(OnStateTopic[i])

\* every Publish succeeded and doPoll returned the error of json.Marshal
C36_MarshalError ==
  /\ C36_Returned
  /\ pubCalls = Delivered
  /\ outcome = "marshal_err"
  /\ OnStateTopic = <<>>

(***************************************************************************)
(* C37                                                                     *)
(***************************************************************************)
\* C37: within one cycle the topics of the published messages are pairwise
\* distinct: distinct variable names have distinct topics and no variable's
\* topic is a metric's topic or the combined-state topic, for every snapshot.
C37_TopicsDistinct ==
  /\ \A t \in DOMAIN sent : Len(sent[t]) <= 1
  /\ \A n1, n2 \in DOMAIN VarsToMap(srcVars) : VarTopic(n1) = VarTopic(n2) => n1 = n2
  /\ VarTopics \cap (MetricTopics \cup {StateTopic(Prefix, UPSName)}) = {}

\* a variable named "state" and the combined state went to the same topic
C37_Collision ==
  /\ C36_Returned
  /\ outcome = "ok"
  /\ Len(OnStateTopic) = 2

(***************************************************************************)
(* C38                                                                     *)
(***************************************************************************)
\* the combined-state messages of the cycle
C38_States == {i \in 1..Len(OnStateTopic) : IsState(OnStateTopic[i])}

\* a message with this payload was taken on topic t
C38_Published(t, payload) ==
  \E i \in 1..Len(OnTopic(t)) : OnTopic(t)[i].Payload = payload

C38_Inv ==
  (C36_Returned /\ outcome = "ok") =>
    /\ Cardinality(C38_States) = 1
    /\ \A i \in C38_States :
         LET body == OnStateTopic[i].Payload.json
         IN \* the variables are the snapshot's, and each went to its topic
            /\ body.variables = VarsToMap(srcVars)
            /\ \A name \in DOMAIN body.variables :
                 C38_Published(VarTopic(name), Text(body.variables[name]))
            \* the computed record is the snapshot's, and each metric went
            \* to its topic with the same value
            /\ body.computed = Compute(VarsToMap(srcVars))
            /\ \A name \in MetricNames :
                 C38_Published(MetricTopic(name), Text(AsTopicMap(body.computed)[name]))
            \* and nothing else was published
            /\ Delivered = Cardinality(DOMAIN body.variables) + Cardinality(MetricNames) + 1

C38_Step ==
  /\ srcVars' = srcVars
  /\ (pc \in PublishPhases /\ pc' \in PublishPhases) =>
       /\ varMap' = varMap
       /\ metrics' = metrics
       /\ varMap = VarsToMap(srcVars)
       /\ metrics = Compute(varMap)
  /\ (pc \in PublishPhases) => UNCHANGED <<ops, nConn>>

\* C38: the messages of one successful cycle are mutually consistent and all
\* derive from the single snapshot of the cycle's one fetch: the variables of
\* the combined state are exactly the (name, value) pairs published on the
\* per-variable topics, its computed record holds the 7 values of the
\* per-metric messages, and Compute and PublishAll leave the snapshot as it is.
C38_OneSnapshotPerCycle == []C38_Inv /\ [][C38_Step]_vars

C38_Witness ==
  /\ C36_Returned
  /\ outcome = "ok"
  /\ Delivered = 10
  /\ Len(OnStateTopic) = 1
  /\ OnStateTopic[1].Payload.json.computed.battery_runtime_mins = 8200

(***************************************************************************)
(* The program with a ticker that keeps firing for as long as it is not    *)
(* stopped.  The clock of the timestamps stops advancing at MaxTicks, and  *)
(* upsd can stop only while fewer than MaxSessions sessions were opened,   *)
(* which keep the state space finite.  The ticker fires at every interval, *)
(* and main, which blocks nowhere but in its select, takes every step it   *)
(* can take.                                                               *)
(***************************************************************************)
TickOn ==
  /\ Running
  /\ tickerOn
  /\ now' = IF now < MaxTicks THEN now + 1 ELSE now
  /\ tickPending' = TRUE
  /\ UNCHANGED <<pc, countVars, ctxDone, tickerOn, startVars, cfgVars, auxVars, sinkVars, srcUp,
                 live, clientVars, cycleVars, pollVars, busVars>>

SourceDownSome ==
  /\ nConn < MaxSessions
  /\ SourceDown

RecoverNext ==
  \/ NewMQTTPublisher
  \/ ConnectAttempt
  \/ BackoffElapsed
  \/ BackoffCancelled
  \/ SelectTick
  \/ SelectDone
  \/ PollReconnect
  \/ PollList
  \/ PollGetVariables
  \/ PublishVariable
  \/ PublishMetric
  \/ publishState
  \/ PublishOffline
  \/ CloseNUT
  \/ ClosePublisher
  \/ Signal
  \/ TickOn
  \/ SourceDownSome
  \/ SourceUp

RecoverSpec ==
  /\ Init
  /\ [][RecoverNext]_vars
  /\ WF_vars(TickOn)
  /\ WF_vars(SelectTick)
  /\ WF_vars(PollReconnect)
  /\ WF_vars(PollList)
  /\ WF_vars(PollGetVariables)
  /\ WF_vars(PublishVariable)
  /\ WF_vars(PublishMetric)
  /\ WF_vars(publishState)

(***************************************************************************)
(* C34                                                                     *)
(***************************************************************************)
\* upsd is up and the login of a reconnect is refused
C34_LoginRefused == pc = "poll" /\ srcUp /\ pc' = "loop" /\ pollErr' = "connect"

\* the broker refuses a message of a cycle
C34_PublishRefused == pc \in PublishPhases /\ outcome' = "publish_err"

\* a cycle has reconnected and published its full message set
C34_Recovered ==
  /\ pc = "loop"
  /\ ~stale
  /\ conn \in live
  /\ outcome = "ok"
  /\ FullSet

\* C34: recovery is by the next tick.  If no cancellation occurs, upsd, which
\* serves the configured UPS, becomes reachable again and stays so, and from
\* some point on it accepts the login and the broker accepts the messages,
\* then under fair ticking every state in which the connector is Stale is
\* followed by one in which a cycle has reconnected, the connector is
\* Connected again and a full message set was published.
C34_RecoversByLaterTick ==
  ( /\ []~ctxDone
    /\ []srcHasTarget
    /\ <>[]srcUp
    /\ <>[][~C34_LoginRefused]_vars
    /\ <>[][~C34_PublishRefused]_vars )
  => (stale ~> C34_Recovered)

\* a cycle found the connector Stale, reconnected and published everything
C34_Witness ==
  /\ C34_Recovered
  /\ staleAtEntry
  /\ ops = <<"connect", "list", "get">>
  /\ nConn = 2
  /\ prevOutcome = "poll_err"

====
